---- MODULE Spec2Model ----
(***************************************************************************)
(* VectorMCP: the MCP JSON-RPC dispatcher (createMcpProxy / handleRpc),    *)
(* its tool resolution and invocation (findTool / callTool) and the two    *)
(* transports that drive it (stdio and SSE), over the tool registry and    *)
(* the vector index.                                                       *)
(***************************************************************************)
EXTENDS Integers, Sequences, FiniteSets, TLC

(***************************************************************************)
(* JavaScript values.  Every JSON value a message can carry is a record    *)
(* tagged with its JavaScript type; U is undefined (the field is absent).  *)
(* Atomic strings (ids, method names, urls) are TLA+ strings (Str);        *)
(* strings that the code trims, joins or tokenises are sequences of        *)
(* one-character strings (Txt).                                            *)
(***************************************************************************)
U == [t |-> "undefined"]
Null == [t |-> "null"]
Num(n) == [t |-> "number", n |-> n]
Str(s) == [t |-> "string", s |-> s]
Txt(cs) == [t |-> "text", s |-> cs]
Arr(a) == [t |-> "array", a |-> a]

\* JavaScript truthiness: undefined, null, 0 and the empty string are falsy.
Truthy(v) ==
  CASE v.t = "undefined" -> FALSE
    [] v.t = "null" -> FALSE
    [] v.t = "number" -> v.n # 0
    [] v.t = "string" -> v.s # ""
    [] v.t = "text" -> v.s # <<>>
    [] OTHER -> TRUE

\* a || b
Or(a, b) == IF Truthy(a) THEN a ELSE b

(***************************************************************************)
(* Texts                                                                   *)
(***************************************************************************)
\* The white space of trim() and of \s that the texts of the model hold.
IsSpace(c) == c \in {" ", "\t", "\r", "\n"}

RECURSIVE TrimStart(_)
TrimStart(s) ==
  IF s = <<>> THEN <<>>
  ELSE IF IsSpace(Head(s)) THEN TrimStart(Tail(s)) ELSE s

RECURSIVE TrimEnd(_)
TrimEnd(s) ==
  IF s = <<>> THEN <<>>
  ELSE IF IsSpace(s[Len(s)]) THEN TrimEnd(SubSeq(s, 1, Len(s) - 1)) ELSE s

\* String.prototype.trim
Trim(s) == TrimEnd(TrimStart(s))

\* String(v) for the values a text field can hold.
ToText(v) ==
  CASE v.t = "text" -> v.s
    [] v.t = "number" -> <<ToString(v.n)>>
    [] v.t = "null" -> <<"n", "u", "l", "l">>
    [] OTHER -> <<"u", "n", "d", "e", "f", "i", "n", "e", "d">>

\* Array.prototype.join(' ') over texts.
RECURSIVE JoinSpace(_)
JoinSpace(parts) ==
  IF parts = <<>> THEN <<>>
  ELSE IF Len(parts) = 1 THEN parts[1]
  ELSE parts[1] \o <<" ">> \o JoinSpace(Tail(parts))

(***************************************************************************)
(* Tool records and their wire schema                                      *)
(***************************************************************************)
Invoke(type, url, method, tool) ==
  [t |-> "object", type |-> type, url |-> url, method |-> method, tool |-> tool]

\* makeTool: the record a parser hands to the registry.
makeTool(id, name, description, category, source, invoke, skillFormat) ==
  [id |-> id, name |-> name, description |-> description, category |-> category,
   source |-> source, invoke |-> invoke, skillFormat |-> skillFormat]

\* tool.invoke?.type and tool.invoke?.url
InvokeType(tool) == IF tool.invoke.t = "object" THEN tool.invoke.type ELSE U
InvokeUrl(tool) == IF tool.invoke.t = "object" THEN tool.invoke.url ELSE U
InvokeMethod(tool) == IF tool.invoke.t = "object" THEN tool.invoke.method ELSE U
InvokeTool(tool) == IF tool.invoke.t = "object" THEN tool.invoke.tool ELSE U

toMcpSchema(tool) ==
  [name |-> tool.name, description |-> tool.description,
   metadata |-> [toolId |-> tool.id, category |-> tool.category,
                 source |-> tool.source, skillFormat |-> tool.skillFormat]]

\* selectedTools.map(toMcpSchema)
MapSchema(ts) == [i \in 1..Len(ts) |-> toMcpSchema(ts[i])]

(***************************************************************************)
(* Embedder and vector index (core.js: LocalEmbedder, VectorStore).        *)
(* A vector is kept as its bucket counts; the L2 normalisation of embed    *)
(* and the cosine of search are folded into Cosine2, the exact square of   *)
(* the cosine as a reduced fraction (counts are non-negative, so squaring  *)
(* keeps the order of the scores).                                         *)
(***************************************************************************)
Dim == 3

Alphabet == <<"a", "b", "c", "d", "e", "f", "i", "l", "n", "u",
              "0", "1", "2", "3", "4", "5", "_">>
WordChars == {Alphabet[i] : i \in 1..Len(Alphabet)}

Lower(c) == CASE c = "A" -> "a" [] c = "B" -> "b" [] OTHER -> c

Code(c) == CHOOSE i \in 1..Len(Alphabet) : Alphabet[i] = c

\* The tokens of a text: the maximal runs of [a-z0-9_] of its lower case.
RECURSIVE TokensFrom(_, _, _)
TokensFrom(s, cur, acc) ==
  IF s = <<>> THEN (IF cur = <<>> THEN acc ELSE Append(acc, cur))
  ELSE LET c == Lower(Head(s)) IN
       IF c \in WordChars THEN TokensFrom(Tail(s), Append(cur, c), acc)
       ELSE TokensFrom(Tail(s), <<>>, IF cur = <<>> THEN acc ELSE Append(acc, cur))

Tokenize(text) == TokensFrom(text, <<>>, <<>>)

\* Stand-in for the first two bytes of the token's hash, as an integer.
RECURSIVE Hash16(_)
Hash16(tok) ==
  IF tok = <<>> THEN 7
  ELSE (Hash16(SubSeq(tok, 1, Len(tok) - 1)) * 31 + Code(tok[Len(tok)])) % 65536

Bucket(tok) == (Hash16(tok) % Dim) + 1

RECURSIVE CountTokens(_, _)
CountTokens(toks, vec) ==
  IF toks = <<>> THEN vec
  ELSE CountTokens(Tail(toks),
                   [vec EXCEPT ![Bucket(Head(toks))] = vec[Bucket(Head(toks))] + 1])

\* One count per token, whatever the dimension.
embedPerToken(text) == [i \in 1..Len(Tokenize(text)) |-> 1]

\* LocalEmbedder.embed
embed(text) == CountTokens(Tokenize(text), [i \in 1..Dim |-> 0])

RECURSIVE SumTo(_, _, _)
SumTo(a, b, i) == IF i = 0 THEN 0 ELSE a[i] * b[i] + SumTo(a, b, i - 1)

Dot(a, b) == SumTo(a, b, Dim)

RECURSIVE Gcd(_, _)
Gcd(m, n) == IF n = 0 THEN m ELSE Gcd(n, m % n)

Frac(n, d) == IF n = 0 THEN [num |-> 0, den |-> 1]
              ELSE [num |-> n \div Gcd(n, d), den |-> d \div Gcd(n, d)]

ZeroScore == Frac(0, 1)

\* cosine(a, b) squared; a zero vector scores 0 against everything.
Cosine2(a, b) ==
  IF Dot(a, b) = 0 THEN ZeroScore
  ELSE Frac(Dot(a, b) * Dot(a, b), Dot(a, a) * Dot(b, b))

ScoreLess(x, y) == x.num * y.den < y.num * x.den

\* The text a tool is embedded from: name, description, category.
EmbedInput(tool) ==
  JoinSpace(<<ToText(tool.name), tool.description, tool.category>>)

\* VectorStore.rebuild: one entry per tool, replacing all entries.
rebuild(ts) ==
  [i \in 1..Len(ts) |-> [id |-> ts[i].id, vector |-> embed(EmbedInput(ts[i])),
                         tool |-> ts[i]]]

\* Stable insertion into a list sorted by non-increasing score.
RECURSIVE InsertDesc(_, _)
InsertDesc(sorted, m) ==
  IF sorted = <<>> THEN <<m>>
  ELSE IF ScoreLess(Head(sorted).score, m.score) THEN <<m>> \o sorted
  ELSE <<Head(sorted)>> \o InsertDesc(Tail(sorted), m)

RECURSIVE SortDesc(_, _)
SortDesc(ms, acc) ==
  IF ms = <<>> THEN acc ELSE SortDesc(Tail(ms), InsertDesc(acc, Head(ms)))

Take(s, k) == SubSeq(s, 1, IF k < Len(s) THEN k ELSE Len(s))

\* The first topK entries in the order of the index.
searchUnsorted(its, query, topK) ==
  Take([i \in 1..Len(its) |->
          [score |-> Cosine2(embed(query), its[i].vector), tool |-> its[i].tool]], topK)

\* VectorStore.search: the first topK entries by non-increasing cosine.
search(its, query, topK) ==
  LET q == embed(query)
      scored == [i \in 1..Len(its) |->
                   [score |-> Cosine2(q, its[i].vector), tool |-> its[i].tool]]
  IN Take(SortDesc(scored, <<>>), topK)

(***************************************************************************)
(* JSON-RPC messages                                                       *)
(***************************************************************************)
\* A params object; an absent member is U.
NoParams ==
  [t |-> "object", contextHint |-> U, topK |-> U, name |-> U, toolId |-> U,
   metadata |-> U, arguments |-> U, prompt |-> U, context |-> U, input |-> U,
   messages |-> U]

Meta(toolId) == [t |-> "object", toolId |-> toolId]
Message(content) == [t |-> "object", content |-> content]
Request(id, method, params) ==
  [t |-> "object", id |-> id, method |-> method, params |-> params]

\* value.member for a value that is not null or undefined: a primitive has
\* none of the members the dispatcher reads.
Get(v, member) == IF v.t = "object" THEN v[member] ELSE U

\* const { id, method, params = {} } = request || {}
Destructure(request) ==
  LET r == Or(request, [t |-> "object", id |-> U, method |-> U, params |-> U])
      p == Get(r, "params")
  IN [id |-> Get(r, "id"), method |-> Get(r, "method"),
      params |-> IF p.t = "undefined" THEN NoParams ELSE p]

\* A dispatcher that also takes a null id for "no id".
IsNotificationLoose(id) == id.t \in {"undefined", "null"}

\* const isNotification = id === undefined
IsNotification(id) == id.t = "undefined"

Response(id, result, error) ==
  [t |-> "response", jsonrpc |-> "2.0", id |-> id, result |-> result, error |-> error]

\* const success = (result) => (isNotification ? null : {jsonrpc, id, result})
success(id, result) == IF IsNotification(id) THEN Null ELSE Response(id, result, U)

\* A failure that answers notifications too.
failureAlways(id, code, message) ==
  Response(id, U, [code |-> code, message |-> message])

\* const failure = (code, message) => (isNotification ? null : {jsonrpc, id, error})
failure(id, code, message) ==
  IF IsNotification(id) THEN Null
  ELSE Response(id, U, [code |-> code, message |-> message])

InvalidRequest == -32600
MethodNotFound == -32601
DefaultTopK == 10

(***************************************************************************)
(* findTool / callTool                                                     *)
(***************************************************************************)
\* tools.tools.find((tool) => tool.id === toolId): the first match, or U.
RECURSIVE FindById(_, _)
FindById(ts, toolId) ==
  IF ts = <<>> THEN U
  ELSE IF Str(Head(ts).id) = toolId THEN Head(ts) ELSE FindById(Tail(ts), toolId)

\* tools.tools.find((tool) => tool.name === name): the first match, or U.
RECURSIVE FindByName(_, _)
FindByName(ts, name) ==
  IF ts = <<>> THEN U
  ELSE IF Head(ts).name = name THEN Head(ts) ELSE FindByName(Tail(ts), name)

\* A lookup that tries the name before the id.
findToolNameFirst(ts, name, toolId) ==
  LET byId == IF Truthy(toolId) THEN FindById(ts, toolId) ELSE U
      byName == FindByName(ts, name)
  IN IF byName # U THEN byName
     ELSE IF byId # U THEN byId ELSE Null

\* byId || byName || null
findTool(ts, name, toolId) ==
  LET byId == IF Truthy(toolId) THEN FindById(ts, toolId) ELSE U
      byName == FindByName(ts, name)
  IN IF byId # U THEN byId
     ELSE IF byName # U THEN byName ELSE Null

Content(isError, text, metadata) ==
  [isError |-> isError, content |-> text, metadata |-> metadata]

\* tool.invoke?.type === 'noop' || tool.invoke?.type === 'skill'
IsStatic(tool) == InvokeType(tool) = Str("noop") \/ InvokeType(tool) = Str("skill")

\* A WebMcp test that forgets the url.
IsWebMcpAnyUrl(tool) == InvokeType(tool) = Str("webmcp")

\* tool.invoke?.type === 'webmcp' && tool.invoke?.url
IsWebMcp(tool) == InvokeType(tool) = Str("webmcp") /\ Truthy(InvokeUrl(tool))

\* tool.invoke?.url
HasUrl(tool) == Truthy(InvokeUrl(tool))

NotFound == Content(TRUE, [m |-> "Tool not found."], U)

\* callTool on a resolved tool, up to its first await: a finished result, or
\* an outbound HTTP request whose reply it waits for.
invokeTool(tool, args) ==
  IF IsStatic(tool)
  THEN [k |-> "done",
        result |-> Content(FALSE,
                           [m |-> "is registered but not remotely invokable",
                            name |-> tool.name],
                           [toolId |-> tool.id])]
  ELSE IF IsWebMcp(tool)
  THEN [k |-> "fetch", branch |-> "webmcp", url |-> InvokeUrl(tool),
        method |-> Str("POST"),
        body |-> [method |-> "tools/call",
                  name |-> Or(InvokeTool(tool), tool.name), arguments |-> args]]
  ELSE IF HasUrl(tool)
  THEN [k |-> "fetch", branch |-> "generic", url |-> InvokeUrl(tool),
        method |-> Or(InvokeMethod(tool), Str("POST")),
        body |-> [tool |-> tool.name, args |-> args]]
  ELSE [k |-> "done",
        result |-> Content(TRUE,
                           [m |-> "Unsupported invoke type",
                            type |-> Or(InvokeType(tool), Str("unknown"))],
                           U)]

\* A callTool whose "Tool not found." result is not flagged as an error.
callToolNoFlag(tool, args) ==
  IF tool = Null THEN [k |-> "done", result |-> [NotFound EXCEPT !.isError = FALSE]]
  ELSE invokeTool(tool, args)

\* callTool up to its first await.
callTool(tool, args) ==
  IF tool = Null THEN [k |-> "done", result |-> NotFound]
  ELSE invokeTool(tool, args)

\* The replies of the upstream server: fetch rejects (a network failure), or
\* resolves with a status and a body.
FetchRejects(reason) == [ok |-> FALSE, reason |-> reason, status |-> 0, body |-> <<>>]
FetchResolves(status, body) == [ok |-> TRUE, reason |-> "", status |-> status, body |-> body]

\* callTool after its await: the try block's return, or the catch block's.
callToolSettled(call, reply) ==
  IF ~reply.ok
  THEN Content(TRUE,
               [m |-> IF call.branch = "webmcp" THEN "Upstream call failed"
                      ELSE "Proxy call failed",
                reason |-> reply.reason],
               U)
  ELSE Content(FALSE,
               IF call.branch = "webmcp" /\ reply.body = <<>>
               THEN [m |-> "returned an empty body.", upstream |-> call.url]
               ELSE [m |-> "body", text |-> reply.body],
               [status |-> reply.status, upstream |-> call.url])

(***************************************************************************)
(* handleRpc                                                               *)
(***************************************************************************)
\* Number(params.topK || 10)
TopKOf(params) ==
  LET v == Or(Get(params, "topK"), Num(DefaultTopK)) IN v.n

\* A hint that is not trimmed.
ContextHintRaw(params) == ToText(Or(Get(params, "contextHint"), Txt(<<>>)))

\* String(params.contextHint || '').trim()
ContextHintOf(params) == Trim(ToText(Or(Get(params, "contextHint"), Txt(<<>>))))

InitializeResult ==
  [protocolVersion |-> "2024-11-05",
   serverInfo |-> [name |-> "vectormcp", version |-> "0.1.0"],
   capabilities |-> {"tools", "completion"}]

\* tools/list: the registry, or the search results for a non-empty hint.
ToolsList(ts, its, params) ==
  LET contextHint == ContextHintOf(params)
      selectedTools ==
        IF contextHint # <<>>
        THEN LET found == search(its, contextHint, TopKOf(params))
             IN [i \in 1..Len(found) |-> found[i].tool]
        ELSE ts
  IN [tools |-> MapSchema(selectedTools)]

\* params.metadata?.toolId || params.toolId
ToolIdOf(params) ==
  LET metadata == Get(params, "metadata")
  IN Or(IF metadata.t = "object" THEN metadata.toolId ELSE U, Get(params, "toolId"))

\* The tool tools/call resolves for these params.
ResolveTool(ts, params) == findTool(ts, Get(params, "name"), ToolIdOf(params))

\* params.messages?.map((m) => m.content || '').join(' ') throws when
\* messages is neither an array nor null/undefined, or holds a null.
MessagesThrow(params) ==
  LET ms == Get(params, "messages")
  IN /\ ms.t \notin {"undefined", "null"}
     /\ \/ ms.t # "array"
        \/ \E i \in 1..Len(ms.a) : ms.a[i].t \in {"null", "undefined"}

MessagesText(params) ==
  LET ms == Get(params, "messages")
  IN IF ms.t # "array" THEN U
     ELSE Txt(JoinSpace([i \in 1..Len(ms.a) |->
                           ToText(Or(Get(ms.a[i], "content"), Txt(<<>>)))]))

\* [prompt, context, input, messages text].filter(Boolean).join(' ')
CompletionText(params) ==
  LET parts == <<Get(params, "prompt"), Get(params, "context"),
                 Get(params, "input"), MessagesText(params)>>
      kept == SelectSeq(parts, Truthy)
  IN JoinSpace([i \in 1..Len(kept) |-> ToText(kept[i])])

\* A completion whose prefix for an empty text ignores topK.
CompletionAllTools(ts, its, params) ==
  LET text == CompletionText(params)
      candidates ==
        IF text # <<>> THEN search(its, text, TopKOf(params))
        ELSE [i \in 1..Len(ts) |-> [score |-> ZeroScore, tool |-> ts[i]]]
  IN [completion |-> [i \in 1..Len(candidates) |->
                        [tool |-> toMcpSchema(candidates[i].tool),
                         score |-> candidates[i].score]]]

Completion(ts, its, params) ==
  LET text == CompletionText(params)
      topK == TopKOf(params)
      candidates ==
        IF text # <<>> THEN search(its, text, topK)
        ELSE [i \in 1..Len(Take(ts, topK)) |-> [score |-> ZeroScore, tool |-> ts[i]]]
  IN [completion |-> [i \in 1..Len(candidates) |->
                        [tool |-> toMcpSchema(candidates[i].tool),
                         score |-> candidates[i].score]]]

\* Reading a member of params throws a TypeError when params is null (the
\* default {} replaces undefined only).
ParamsThrow(method, params) ==
  /\ method \in {Str("tools/list"), Str("tools/call"), Str("completion/complete")}
  /\ \/ params.t = "null"
     \/ method = Str("completion/complete") /\ MessagesThrow(params)

\* handleRpc up to its first await on an upstream reply.  The outcome is a
\* returned value (a response or null), a thrown exception (the promise
\* rejects), or a tools/call suspended on fetch.
handleRpc(ts, its, request) ==
  LET d == Destructure(request)
      id == d.id
      method == d.method
      params == d.params
  IN IF ~Truthy(method)
     THEN [k |-> "return", v |-> failure(id, InvalidRequest, "Invalid Request")]
     ELSE IF ParamsThrow(method, params)
     THEN [k |-> "throw", error |-> "TypeError"]
     ELSE IF method = Str("initialize")
     THEN [k |-> "return", v |-> success(id, InitializeResult)]
     ELSE IF method = Str("tools/list")
     THEN [k |-> "return", v |-> success(id, ToolsList(ts, its, params))]
     ELSE IF method = Str("tools/call")
     THEN LET tool == ResolveTool(ts, params)
              args == Or(Get(params, "arguments"), [t |-> "object"])
              call == callTool(tool, args)
          IN IF call.k = "done"
             THEN [k |-> "return", v |-> success(id, call.result)]
             ELSE [k |-> "fetch", id |-> id, tool |-> tool, call |-> call]
     ELSE IF method = Str("completion/complete")
     THEN [k |-> "return", v |-> success(id, Completion(ts, its, params))]
     ELSE [k |-> "return", v |-> failure(id, MethodNotFound, "Method not found")]

\* handleRpc resumed by the upstream reply: return success(result).
handleRpcSettled(id, call, reply) == success(id, callToolSettled(call, reply))

(***************************************************************************)
(* Stdio framing: texts, JSON, parseStdioMessages, writeStdioMessage       *)
(***************************************************************************)
CR == "\r"
LF == "\n"

\* Stands for a character outside ASCII, such as U+00E9: one code unit of a
\* JS string, two bytes of its UTF-8 encoding.
Wide == "@"

Digit == <<"0", "1", "2", "3", "4", "5", "6", "7", "8", "9">>
IsDigit(c) == \E i \in 1..Len(Digit) : Digit[i] = c
DigitValue(c) == (CHOOSE i \in 1..Len(Digit) : Digit[i] = c) - 1

\* Number(digits) for a run of decimal digits.
RECURSIVE NumberOf(_)
NumberOf(ds) ==
  IF ds = <<>> THEN 0
  ELSE NumberOf(SubSeq(ds, 1, Len(ds) - 1)) * Len(Digit) + DigitValue(ds[Len(ds)])

\* String(n) for n >= 0.
RECURSIVE Digits(_)
Digits(n) ==
  IF n < Len(Digit) THEN <<Digit[n + 1]>>
  ELSE Append(Digits(n \div Len(Digit)), Digit[(n % Len(Digit)) + 1])

\* The bytes of the UTF-8 encoding of one character.
Utf8Bytes(c) == IF c = Wide THEN 2 ELSE 1

\* Buffer.byteLength(text, 'utf8')
RECURSIVE byteLength(_)
byteLength(text) ==
  IF text = <<>> THEN 0 ELSE Utf8Bytes(Head(text)) + byteLength(Tail(text))

\* text.slice(from, to), text.startsWith(p) and text.indexOf(p), with the
\* 0-based indices of JS.
Slice(text, from, to) == SubSeq(text, from + 1, IF to < Len(text) THEN to ELSE Len(text))
StartsWith(text, p) == Len(text) >= Len(p) /\ SubSeq(text, 1, Len(p)) = p
RECURSIVE IndexFrom(_, _, _)
IndexFrom(text, p, i) ==
  IF i + Len(p) > Len(text) THEN -1
  ELSE IF text[i + 1] = p[1] /\ SubSeq(text, i + 1, i + Len(p)) = p THEN i
  ELSE IndexFrom(text, p, i + 1)
IndexOf(text, p) == IndexFrom(text, p, 0)

\* A JSON object: its members in order, each a key and a value.
Obj(members) == [t |-> "object", members |-> members]
Member(key, value) == [key |-> key, value |-> value]

\* The position of the first character from i on that is not white space,
\* and of the first that is not a digit.
RECURSIVE SkipWs(_, _)
SkipWs(text, i) == IF i <= Len(text) /\ IsSpace(text[i]) THEN SkipWs(text, i + 1) ELSE i
RECURSIVE DigitsEnd(_, _)
DigitsEnd(text, i) == IF i <= Len(text) /\ IsDigit(text[i]) THEN DigitsEnd(text, i + 1) ELSE i

\* The outcome of parsing a value that starts at some position: the value and
\* the position after it, or a failure.
Fail == [ok |-> FALSE, v |-> U, i |-> 0]
Ok(v, i) == [ok |-> TRUE, v |-> v, i |-> i]

Quote == "\""
NullText == <<"n", "u", "l", "l">>

\* A string literal that opens at position i: up to the next quote, with no
\* control character in it.
ParseString(text, i) ==
  LET close == {j \in (i + 1)..Len(text) : text[j] = Quote}
  IN IF close = {} THEN Fail
     ELSE LET j == CHOOSE j \in close : \A k \in close : j <= k
              cs == SubSeq(text, i + 1, j - 1)
          IN IF \E k \in 1..Len(cs) : cs[k] \in {CR, LF, "\t"} THEN Fail
             ELSE Ok(Txt(cs), j + 1)

\* JSON.parse, for the JSON texts the model writes: null, integers, strings
\* without escapes, arrays and objects.
RECURSIVE ParseValue(_, _)
RECURSIVE ParseElements(_, _, _)
RECURSIVE ParseMembers(_, _, _)
ParseValue(text, from) ==
  LET i == SkipWs(text, from)
  IN IF i > Len(text) THEN Fail
     ELSE IF text[i] = "n"
     THEN IF i + 3 <= Len(text) /\ SubSeq(text, i, i + 3) = NullText
          THEN Ok(Null, i + 4) ELSE Fail
     ELSE IF IsDigit(text[i])
     THEN LET j == DigitsEnd(text, i)
          IN IF text[i] = "0" /\ j > i + 1 THEN Fail
             ELSE Ok(Num(NumberOf(SubSeq(text, i, j - 1))), j)
     ELSE IF text[i] = Quote THEN ParseString(text, i)
     ELSE IF text[i] = "["
     THEN LET k == SkipWs(text, i + 1)
          IN IF k <= Len(text) /\ text[k] = "]" THEN Ok(Arr(<<>>), k + 1)
             ELSE ParseElements(text, i + 1, <<>>)
     ELSE IF text[i] = "{"
     THEN LET k == SkipWs(text, i + 1)
          IN IF k <= Len(text) /\ text[k] = "}" THEN Ok(Obj(<<>>), k + 1)
             ELSE ParseMembers(text, i + 1, <<>>)
     ELSE Fail

ParseElements(text, from, acc) ==
  LET r == ParseValue(text, from)
      k == SkipWs(text, r.i)
  IN IF ~r.ok \/ k > Len(text) THEN Fail
     ELSE IF text[k] = "," THEN ParseElements(text, k + 1, Append(acc, r.v))
     ELSE IF text[k] = "]" THEN Ok(Arr(Append(acc, r.v)), k + 1)
     ELSE Fail

ParseMembers(text, from, acc) ==
  LET i == SkipWs(text, from)
      key == IF i <= Len(text) /\ text[i] = Quote THEN ParseString(text, i) ELSE Fail
      colon == SkipWs(text, key.i)
      r == IF key.ok /\ colon <= Len(text) /\ text[colon] = ":"
           THEN ParseValue(text, colon + 1) ELSE Fail
      k == SkipWs(text, r.i)
  IN IF ~r.ok \/ k > Len(text) THEN Fail
     ELSE IF text[k] = "," THEN ParseMembers(text, k + 1, Append(acc, Member(key.v.s, r.v)))
     ELSE IF text[k] = "}" THEN Ok(Obj(Append(acc, Member(key.v.s, r.v))), k + 1)
     ELSE Fail

\* JSON.parse(text): the value, or a SyntaxError.
JSONparse(text) ==
  LET r == ParseValue(text, 1)
  IN IF r.ok /\ SkipWs(text, r.i) > Len(text) THEN [ok |-> TRUE, v |-> r.v]
     ELSE [ok |-> FALSE, v |-> U]

RECURSIVE JoinComma(_)
JoinComma(parts) ==
  IF parts = <<>> THEN <<>>
  ELSE IF Len(parts) = 1 THEN parts[1]
  ELSE parts[1] \o <<",">> \o JoinComma(Tail(parts))

\* JSON.stringify(value)
RECURSIVE JSONstringify(_)
JSONstringify(v) ==
  CASE v.t = "number" -> Digits(v.n)
    [] v.t = "text" -> <<Quote>> \o v.s \o <<Quote>>
    [] v.t = "array" ->
         <<"[">> \o JoinComma([i \in 1..Len(v.a) |-> JSONstringify(v.a[i])]) \o <<"]">>
    [] v.t = "object" ->
         <<"{">> \o JoinComma([i \in 1..Len(v.members) |->
                                 <<Quote>> \o v.members[i].key \o <<Quote, ":">>
                                 \o JSONstringify(v.members[i].value)])
         \o <<"}">>
    [] OTHER -> NullText

ContentLength == <<"C", "o", "n", "t", "e", "n", "t", "-", "L", "e", "n", "g", "t", "h", ":">>
HeaderEnd == <<CR, LF, CR, LF>>

\* writeStdioMessage: the text written to stdout for a message.
writeStdioMessage(message) ==
  LET body == JSONstringify(message)
      len == byteLength(body)
  IN ContentLength \o <<" ">> \o Digits(len) \o HeaderEnd \o body

\* Case folding for the letters of the header name.
FoldCase(c) == CASE c = "C" -> "c" [] c = "L" -> "l" [] OTHER -> c
Fold(text) == [i \in 1..Len(text) |-> FoldCase(text[i])]

\* /Content-Length:\s*(\d+)/i tried at position i of the header: the digits
\* it captures, <<>> when it does not match there.
MatchAt(header, i) ==
  IF i + Len(ContentLength) <= Len(header)
     /\ FoldCase(header[i + 1]) = FoldCase(ContentLength[1])
     /\ Fold(SubSeq(header, i + 1, i + Len(ContentLength))) = Fold(ContentLength)
  THEN LET j == SkipWs(header, i + Len(ContentLength) + 1)
       IN SubSeq(header, j, DigitsEnd(header, j) - 1)
  ELSE <<>>

\* header.match(/Content-Length:\s*(\d+)/i): the digits of the first match,
\* <<>> when there is none.
lengthMatch(header) ==
  LET at == {i \in 0..(Len(header) - Len(ContentLength)) : MatchAt(header, i) # <<>>}
  IN IF at = {} THEN <<>>
     ELSE MatchAt(header, CHOOSE i \in at : \A j \in at : i <= j)

\* A header without a length is skipped and the parse goes on after it.
RECURSIVE parseLoopSkipsHeader(_, _)
parseLoopSkipsHeader(buffer, messages) ==
  LET stop == [buffer |-> buffer, messages |-> messages]
  IN IF buffer = <<>> THEN stop
     ELSE IF StartsWith(buffer, ContentLength)
     THEN LET headerEnd == IndexOf(buffer, HeaderEnd)
              header == Slice(buffer, 0, headerEnd)
              digits == lengthMatch(header)
              bodyStart == headerEnd + 4
              length == NumberOf(digits)
              body == Slice(buffer, bodyStart, bodyStart + length)
              r == JSONparse(body)
          IN IF headerEnd = -1 THEN stop
             ELSE IF digits = <<>>
             THEN parseLoopSkipsHeader(Slice(buffer, bodyStart, Len(buffer)), messages)
             ELSE IF Len(buffer) < bodyStart + length THEN stop
             ELSE parseLoopSkipsHeader(Slice(buffer, bodyStart + length, Len(buffer)),
                            IF r.ok THEN Append(messages, r.v) ELSE messages)
     ELSE LET newlineIndex == IndexOf(buffer, <<LF>>)
              line == Trim(Slice(buffer, 0, newlineIndex))
              rest == Slice(buffer, newlineIndex + 1, Len(buffer))
              r == JSONparse(line)
          IN IF newlineIndex = -1 THEN stop
             ELSE IF line = <<>> THEN parseLoopSkipsHeader(rest, messages)
             ELSE parseLoopSkipsHeader(rest, IF r.ok THEN Append(messages, r.v) ELSE messages)

\* The while loop of parseStdioMessages: what is left in the buffer and the
\* messages parsed, in order.
RECURSIVE parseLoop(_, _)
parseLoop(buffer, messages) ==
  LET stop == [buffer |-> buffer, messages |-> messages]
  IN IF buffer = <<>> THEN stop
     ELSE IF StartsWith(buffer, ContentLength)
     THEN LET headerEnd == IndexOf(buffer, HeaderEnd)
              header == Slice(buffer, 0, headerEnd)
              digits == lengthMatch(header)
              bodyStart == headerEnd + 4
              length == NumberOf(digits)
              body == Slice(buffer, bodyStart, bodyStart + length)
              r == JSONparse(body)
          IN IF headerEnd = -1 THEN stop
             ELSE IF digits = <<>> THEN [buffer |-> <<>>, messages |-> messages]
             ELSE IF Len(buffer) < bodyStart + length THEN stop
             ELSE parseLoop(Slice(buffer, bodyStart + length, Len(buffer)),
                            IF r.ok THEN Append(messages, r.v) ELSE messages)
     ELSE LET newlineIndex == IndexOf(buffer, <<LF>>)
              line == Trim(Slice(buffer, 0, newlineIndex))
              rest == Slice(buffer, newlineIndex + 1, Len(buffer))
              r == JSONparse(line)
          IN IF newlineIndex = -1 THEN stop
             ELSE IF line = <<>> THEN parseLoop(rest, messages)
             ELSE parseLoop(rest, IF r.ok THEN Append(messages, r.v) ELSE messages)

\* parseStdioMessages(state): the new state.buffer and the messages returned.
parseStdioMessages(buffer) == parseLoop(buffer, <<>>)

(***************************************************************************)
(* The registry contents and the messages the model draws from             *)
(***************************************************************************)
MaxRequests == 2
MaxPosts == 1
MaxClients == 1
BigSize == 11

\* One tool of every invoke shape callTool distinguishes.
Alpha == makeTool("id1", Txt(<<"a">>), <<"a", " ", "b">>, <<"c">>, "s1",
                  Invoke(Str("noop"), U, U, U), FALSE)
Beta == makeTool("id2", Txt(<<"b">>), <<"b", " ", "b">>, <<"c">>, "s1",
                 Invoke(Str("skill"), U, U, U), TRUE)
Web == makeTool("id3", Txt(<<"a">>), <<"a", " ", "a">>, <<"d">>, "http://w",
                Invoke(Str("webmcp"), Str("http://w"), U, Str("wtool")), FALSE)
Generic == makeTool("id4", Txt(<<"d">>), <<"d">>, <<"c">>, "s2",
                    Invoke(Str("generic"), Str("http://g"), Str("PUT"), U), FALSE)
BogusUrl == makeTool("id5", Txt(<<"e">>), <<"e", " ", "a">>, <<"c">>, "s2",
                     Invoke(Str("bogus"), Str("http://x"), U, U), FALSE)
Grpc == makeTool("id6", Txt(<<"f">>), <<"f">>, <<"c">>, "s2",
                 Invoke(Str("grpc"), U, U, U), FALSE)
WebNoUrl == makeTool("id7", Txt(<<"i">>), <<"i", " ", "b">>, <<"d">>, "s3",
                     Invoke(Str("webmcp"), U, U, U), FALSE)
Bare == makeTool("id8", Txt(<<"l">>), <<"l">>, <<"d">>, "s3", U, FALSE)

BigTool(i) ==
  makeTool("big" \o ToString(i), Txt(<<"n", ToString(i % 6)>>),
           IF i % 2 = 0 THEN <<"a">> ELSE <<"b", " ", "a">>, <<"c">>, "s4",
           Invoke(Str("noop"), U, U, U), FALSE)

\* The registries a start-up sync can leave: tool ids are unique, names need
\* not be.
Registries ==
  { <<Alpha, Beta, Web, Generic, BogusUrl, Grpc, WebNoUrl, Bare>>,
    <<Web, Alpha>>,
    [i \in 1..BigSize |-> BigTool(i)] }

SomeIds == {U, Num(7)}

Hint(h, k) == [NoParams EXCEPT !.contextHint = h, !.topK = k]

ListParams ==
  {Hint(U, Num(1)), Hint(Txt(<<>>), Num(1)), Hint(Txt(<<" ">>), Num(1)),
   Hint(Txt(<<"a">>), U), Hint(Txt(<<"a">>), Num(0)), Hint(Txt(<<"a">>), Num(1)),
   Hint(Txt(<<" ", "b", " ">>), Num(1)), Hint(Txt(<<"A", " ", "d">>), Num(2)),
   Num(5)}

Call(n, i, m) == [NoParams EXCEPT !.name = n, !.toolId = i, !.metadata = m]

ToolIds == {Str("nope"), Str("id1"), Str("id2"), Str("id3"), Str("id4"),
            Str("id5"), Str("id6"), Str("id7"), Str("id8")}

CallParams ==
  {Call(U, i, U) : i \in ToolIds}
  \cup {Call(Txt(<<"a">>), U, U), Call(Txt(<<"z">>), U, U),
        Call(Txt(<<"b">>), Str("nope"), U), Call(Txt(<<"b">>), Str("id3"), U),
        Call(Txt(<<"b">>), Str("id1"), Meta(Str("id4"))),
        Call(Txt(<<"b">>), Str("id1"), Meta(U))}

Complete(p, m, k) == [NoParams EXCEPT !.prompt = p, !.messages = m, !.topK = k]

CompleteParams ==
  {Complete(Txt(<<>>), U, U), Complete(Txt(<<>>), U, Num(0)),
   Complete(Txt(<<"a">>), U, Num(1)),
   Complete(U, Arr(<<>>), Num(2)),
   Complete(Txt(<<"a">>), Arr(<<Message(Txt(<<"b">>)), Message(U)>>), U),
   Complete(U, Arr(<<Null>>), U)}

\* The decoded messages: any JSON value; params absent, null, a primitive or
\* an object.
Requests ==
  {Null, Num(5)}
  \cup {Request(i, m, U) :
          i \in SomeIds, m \in {U, Str(""), Str("initialize"), Str("foo/bar")}}
  \cup {Request(Null, m, U) : m \in {U, Str("foo/bar")}}
  \cup {Request(Num(7), m, U) : m \in {Num(0), Num(3)}}
  \cup {Request(Num(7), m, Null) :
          m \in {Str("initialize"), Str("foo/bar"), Str("tools/list"),
                 Str("tools/call"), Str("completion/complete")}}
  \cup {Request(U, Str("tools/list"), Null)}
  \cup {Request(Num(7), Str("tools/list"), p) : p \in ListParams}
  \cup {Request(U, Str("tools/list"), Hint(Txt(<<"a">>), Num(1)))}
  \cup {Request(Num(7), Str("tools/call"), p) : p \in CallParams}
  \cup {Request(U, Str("tools/call"), Call(U, i, U)) : i \in {Str("nope"), Str("id3")}}
  \cup {Request(Num(7), Str("completion/complete"), p) : p \in CompleteParams}
  \cup {Request(U, Str("completion/complete"), Complete(Txt(<<"a">>), U, Num(1)))}

\* The messages that can follow the first one: a request that is answered at
\* once, one that waits for an upstream reply, a notification, and a request
\* on which handleRpc throws.
Followers ==
  {Request(Num(8), Str("initialize"), U),
   Request(Num(8), Str("tools/call"), Call(U, Str("id3"), U)),
   Request(U, Str("foo/bar"), U),
   Request(Num(8), Str("tools/list"), Null)}

\* What the upstream server can answer to an outbound call.
Replies ==
  {FetchRejects("ECONNREFUSED"), FetchResolves(200, <<"o", "k">>),
   FetchResolves(200, <<>>), FetchResolves(500, <<"e", "r", "r">>)}

Conns == 1..MaxClients

(***************************************************************************)
(* State                                                                   *)
(***************************************************************************)
VARIABLES
  transport,  \* the transport the proxy was started with
  tools,      \* ToolRegistry.tools
  items,      \* VectorStore.items
  clients,    \* the SSE subscriber set
  conn,       \* each SSE connection: "new", "open" or "closed"
  sseOut,     \* the events written to each SSE stream
  httpOut,    \* the HTTP replies of the SSE POST route
  stdout,     \* the frames written to stdout
  fetched,    \* the outbound HTTP calls made
  inflight,   \* the handlers suspended on an upstream reply
  log,        \* every handleRpc call that has finished, with its outcome
  nreq,       \* the number of messages received so far
  crashed,    \* an unhandled rejection has ended the process
  input,      \* the text on stdin that has not arrived yet
  buffer,     \* state.buffer of the stdio transport
  sent,       \* the pieces the text on stdin was made of
  got,        \* the messages parseStdioMessages has returned so far
  sessionHistory,  \* the Map sessionId -> tool ids of the REST server
  restOut,    \* the POST /mcp/query requests answered, with their replies
  configTopK, \* config.topK of the REST server
  queries,    \* ActivityTracker.queries, in insertion order
  activity,   \* ActivityTracker.activity
  recorded,   \* every event recordEvent was called with, oldest first
  sources,    \* config.sources of the REST server
  sourceMeta, \* SourceMeta: source id -> status, lastSync, toolCount, error
  pending,    \* the syncSource calls waiting for parseSource
  syncOut,    \* the replies of the /sources routes
  ncalls,     \* the number of /sources requests received so far
  failed,     \* the syncSource calls whose source could not be read
  phase,      \* "off", "boot", "listening" or "failed"
  onRebuild,  \* the callback setupWatchers was given
  watchedDirs,       \* the directories fs.watch listens on
  rebuilding,        \* the flag rebuilding of setupWatchers
  rebuildScheduled,  \* the flag rebuildScheduled of setupWatchers
  timers,     \* the number of rebuild timers that have not fired yet
  running,    \* the onRebuild calls that have not settled yet
  changes,    \* the number of change events detected so far
  rebuilds    \* every rebuild attempt that has ended, oldest first

\* The state of the proxy and its transports, and of the stdin text.
proxy == <<transport, tools, items, clients, conn, sseOut, httpOut, stdout, fetched,
           inflight, log, nreq, crashed>>
wire == <<input, buffer, sent, got>>

server == <<sessionHistory, restOut, configTopK, queries, activity, recorded>>

sync == <<sources, sourceMeta, pending, syncOut, ncalls, failed, phase>>

watch == <<onRebuild, watchedDirs, rebuilding, rebuildScheduled, timers, running,
           changes, rebuilds>>

vars == <<proxy, wire, server, sync, watch>>

\* No text is fed to stdin.
NoWire == input = <<>> /\ buffer = <<>> /\ sent = <<>> /\ got = <<>>

\* No source is configured and no /sources route is used.
NoSync ==
  /\ sources = <<>> /\ sourceMeta = <<>> /\ pending = {} /\ syncOut = <<>>
  /\ ncalls = 0 /\ failed = <<>> /\ phase = "off"

\* The process was started without --watch.
NoWatch ==
  /\ onRebuild = "none" /\ watchedDirs = {} /\ rebuilding = FALSE
  /\ rebuildScheduled = FALSE /\ timers = 0 /\ running = {} /\ changes = 0
  /\ rebuilds = <<>>

\* The REST server is not running.
NoRest ==
  /\ sessionHistory = <<>> /\ restOut = <<>> /\ configTopK = U
  /\ queries = <<>> /\ activity = <<>> /\ recorded = <<>>

\* createMcpProxy: the index of the registry left by syncAllSources, and
\* transports that have seen no traffic yet.
Started ==
  /\ items = rebuild(tools)
  /\ clients = {}
  /\ conn = [c \in Conns |-> "new"]
  /\ sseOut = [c \in Conns |-> <<>>]
  /\ httpOut = <<>>
  /\ stdout = <<>>
  /\ fetched = <<>>
  /\ inflight = {}
  /\ log = <<>>
  /\ nreq = 0
  /\ crashed = FALSE

Init ==
  /\ transport \in {"stdio", "sse"}
  /\ tools \in Registries
  /\ Started
  /\ NoWire
  /\ NoRest
  /\ NoSync
  /\ NoWatch

\* A finished handleRpc call: message n, its transport, the outcome, the tool
\* handed to callTool (U when callTool was not reached) and the upstream
\* reply it waited for (U when it made no outbound call).
Entry(n, via, request, k, v, called, reply) ==
  [n |-> n, via |-> via, request |-> request, k |-> k, v |-> v,
   called |-> called, reply |-> reply]

\* The tool handleRpc hands to callTool for this request, U when it does not
\* reach callTool.
CalledTool(ts, request) ==
  LET d == Destructure(request)
  IN IF d.method = Str("tools/call") /\ d.params.t # "null"
     THEN ResolveTool(ts, d.params) ELSE U

\* A handler suspended on fetch: the message, the call it made, and (on
\* stdio) the messages of its chunk that its loop has not reached yet.
Suspended(n, via, request, o, called, rest) ==
  [n |-> n, via |-> via, request |-> request, id |-> o.id, call |-> o.call,
   called |-> called, rest |-> rest]

(***************************************************************************)
(* Stdio transport                                                         *)
(***************************************************************************)
\* A reply written as a line of JSON, as a newline-delimited request came.
FrameAsLine(n, response) == [n |-> n, frame |-> "line", body |-> response]

\* writeStdioMessage: one Content-Length frame holding the response.
Frame(n, response) == [n |-> n, frame |-> "Content-Length", body |-> response]

\* The for loop of the data handler from message n on: each response that is
\* not null is written; the loop stops where handleRpc throws (the handler's
\* promise rejects, which nothing catches) or awaits an upstream reply.
RECURSIVE RunLoop(_, _, _)
RunLoop(msgs, n, acc) ==
  IF msgs = <<>> THEN acc
  ELSE LET o == handleRpc(tools, items, Head(msgs))
           called == CalledTool(tools, Head(msgs))
       IN CASE o.k = "throw" ->
                 [acc EXCEPT !.log = Append(@, Entry(n, "stdio", Head(msgs), "throw", U, called, U)),
                             !.crashed = TRUE]
            [] o.k = "fetch" ->
                 [acc EXCEPT !.fetched = Append(@, [n |-> n, call |-> o.call]),
                             !.pending = {Suspended(n, "stdio", Head(msgs), o, called, Tail(msgs))}]
            [] OTHER ->
                 RunLoop(Tail(msgs), n + 1,
                         [acc EXCEPT
                            !.log = Append(@, Entry(n, "stdio", Head(msgs), "return", o.v, called, U)),
                            !.stdout = IF o.v = Null THEN @ ELSE Append(@, Frame(n, o.v))])

Acc == [log |-> log, stdout |-> stdout, fetched |-> fetched, pending |-> {},
        crashed |-> FALSE]

\* process.stdin.on('data'): the chunk completes the messages msgs.  Where
\* handleRpc throws, the listener's promise rejects with the rest of the
\* chunk unhandled; the runtime ends the process on the unhandled rejection,
\* or only warns about it.
DataLoop(msgs) ==
  /\ transport = "stdio"
  /\ ~crashed
  /\ LET r == RunLoop(msgs, nreq + 1, Acc)
     IN /\ log' = r.log
        /\ stdout' = r.stdout
        /\ fetched' = r.fetched
        /\ inflight' = inflight \cup r.pending
        /\ crashed' \in {r.crashed, FALSE}
  /\ nreq' = nreq + Len(msgs)
  /\ UNCHANGED <<transport, tools, items, clients, conn, sseOut, httpOut>>

\* A data handler that drops the first registered tool and re-indexes
\* before it dispatches.
StdioDataResyncs(msgs) ==
  /\ transport = "stdio" /\ msgs # <<>> /\ tools # <<>>
  /\ tools' = Tail(tools)
  /\ items' = rebuild(tools')
  /\ nreq' = nreq + Len(msgs)
  /\ UNCHANGED <<transport, clients, conn, sseOut, httpOut, stdout, fetched, inflight,
                 log, crashed, wire, server, sync, watch>>

\* The data handler seen after parsing: the chunk completes the messages
\* msgs.
StdioData(msgs) == DataLoop(msgs) /\ UNCHANGED <<wire, server, sync, watch>>

(***************************************************************************)
(* SSE transport                                                           *)
(***************************************************************************)
\* An event of the stream; n is the message it answers (0 for ready).
Event(name, data, n) == [event |-> name, data |-> data, n |-> n]

\* for (const client of clients) client.write(payload)
Broadcast(out, payload) ==
  [c \in Conns |-> IF c \in clients THEN Append(out[c], payload) ELSE out[c]]

\* app.get('/mcp/sse')
SseGet(c) ==
  /\ transport = "sse"
  /\ ~crashed
  /\ conn[c] = "new"
  /\ sseOut' = [sseOut EXCEPT ![c] = Append(@, Event("ready", [ok |-> TRUE], 0))]
  /\ clients' = clients \cup {c}
  /\ conn' = [conn EXCEPT ![c] = "open"]
  /\ UNCHANGED <<transport, tools, items, httpOut, stdout, fetched, inflight, log, nreq, crashed>>
  /\ UNCHANGED <<wire, server, sync, watch>>

\* A close handler that leaves the connection in the subscriber set.
SseCloseKeeps(c) ==
  /\ transport = "sse"
  /\ ~crashed
  /\ conn[c] = "open"
  /\ conn' = [conn EXCEPT ![c] = "closed"]
  /\ UNCHANGED <<transport, tools, items, clients, sseOut, httpOut, stdout, fetched, inflight, log, nreq, crashed>>
  /\ UNCHANGED <<wire, server, sync, watch>>

\* req.on('close')
SseClose(c) ==
  /\ transport = "sse"
  /\ ~crashed
  /\ conn[c] = "open"
  /\ clients' = clients \ {c}
  /\ conn' = [conn EXCEPT ![c] = "closed"]
  /\ UNCHANGED <<transport, tools, items, sseOut, httpOut, stdout, fetched, inflight, log, nreq, crashed>>
  /\ UNCHANGED <<wire, server, sync, watch>>

\* The POST route after handleRpc has returned: broadcast, then res.json.
SseRespond(n, response) ==
  /\ sseOut' = Broadcast(sseOut, Event("message", response, n))
  /\ httpOut' = Append(httpOut, [n |-> n, status |-> 200, body |-> response])

\* app.post('/mcp/sse') up to the first await on an upstream reply.
SsePost(request) ==
  /\ transport = "sse"
  /\ ~crashed
  /\ nreq < MaxPosts
  /\ nreq' = nreq + 1
  /\ LET o == handleRpc(tools, items, request)
         called == CalledTool(tools, request)
     IN \/ /\ o.k = "return"
           /\ SseRespond(nreq + 1, o.v)
           /\ log' = Append(log, Entry(nreq + 1, "sse", request, "return", o.v, called, U))
           /\ UNCHANGED <<fetched, inflight, crashed>>
        \/ /\ o.k = "fetch"
           /\ fetched' = Append(fetched, [n |-> nreq + 1, call |-> o.call])
           /\ inflight' = inflight \cup {Suspended(nreq + 1, "sse", request, o, called, <<>>)}
           /\ UNCHANGED <<sseOut, httpOut, log, crashed>>
        \/ \* the rejection reaches no handler: the process ends
           /\ o.k = "throw"
           /\ crashed' = TRUE
           /\ log' = Append(log, Entry(nreq + 1, "sse", request, "throw", U, called, U))
           /\ UNCHANGED <<sseOut, httpOut, fetched, inflight>>
        \/ \* a router that forwards the rejection answers 500
           /\ o.k = "throw"
           /\ httpOut' = Append(httpOut, [n |-> nreq + 1, status |-> 500, body |-> U])
           /\ log' = Append(log, Entry(nreq + 1, "sse", request, "throw", U, called, U))
           /\ UNCHANGED <<sseOut, fetched, inflight, crashed>>
  /\ UNCHANGED <<transport, tools, items, clients, conn, stdout>>
  /\ UNCHANGED <<wire, server, sync, watch>>

(***************************************************************************)
(* The upstream reply                                                      *)
(***************************************************************************)
\* fetch settles for the suspended handler p; the handler runs on to its end
\* or (on stdio) to the next await of its loop.
FetchSettles(p, reply) ==
  /\ ~crashed
  /\ p \in inflight
  /\ LET v == handleRpcSettled(p.id, p.call, reply)
         e == Entry(p.n, p.via, p.request, "return", v, p.called, reply)
     IN \/ /\ p.via = "sse"
           /\ SseRespond(p.n, v)
           /\ log' = Append(log, e)
           /\ inflight' = inflight \ {p}
           /\ UNCHANGED <<stdout, fetched, crashed>>
        \/ /\ p.via = "stdio"
           /\ LET r == RunLoop(p.rest, p.n + 1,
                               [Acc EXCEPT
                                  !.log = Append(@, e),
                                  !.stdout = IF v = Null THEN @ ELSE Append(@, Frame(p.n, v))])
              IN /\ log' = r.log
                 /\ stdout' = r.stdout
                 /\ fetched' = r.fetched
                 /\ inflight' = (inflight \ {p}) \cup r.pending
                 /\ crashed' \in {r.crashed, FALSE}
           /\ UNCHANGED <<sseOut, httpOut>>
  /\ UNCHANGED <<transport, tools, items, clients, conn, nreq>>
  /\ UNCHANGED <<wire, server, sync, watch>>

\* The next message to arrive: any message first, then one of Followers.
Incoming == IF nreq = 0 THEN Requests ELSE Followers

\* The bodies express.json hands to the POST route: objects only.
Posted == {request \in Incoming : request.t = "object"}

\* The messages a chunk of input can complete.
Chunks ==
  UNION {{<<first>> \o rest : first \in Incoming, rest \in [1..(k - 1) -> Followers]} :
           k \in 1..(MaxRequests - nreq)}

Next ==
  \/ \E msgs \in Chunks : StdioData(msgs)
  \/ \E c \in Conns : SseGet(c)
  \/ \E c \in Conns : SseClose(c)
  \/ \E request \in Posted : SsePost(request)
  \/ \E p \in inflight : \E reply \in Replies : FetchSettles(p, reply)

Spec == Init /\ [][Next]_vars

(***************************************************************************)
(* The stdio transport fed with text                                       *)
(***************************************************************************)
IdKey == <<"i", "d">>
MethodKey == <<"m", "e", "t", "h", "o", "d">>
ParamsKey == <<"p", "a", "r", "a", "m", "s">>

\* The characters of a method name as one string.
RECURSIVE Joined(_)
Joined(cs) == IF cs = <<>> THEN "" ELSE Head(cs) \o Joined(Tail(cs))

\* obj[key] for a parsed object: the value of its last member with that key.
Lookup(obj, key) ==
  LET at == {i \in 1..Len(obj.members) : obj.members[i].key = key}
  IN IF at = {} THEN U ELSE obj.members[CHOOSE i \in at : \A j \in at : j <= i].value

\* A parsed message as handleRpc reads it: its id, method and params.  The
\* messages fed as text carry params objects without members only.
Decoded(message) ==
  IF message.t # "object" THEN message
  ELSE LET method == Lookup(message, MethodKey)
           params == Lookup(message, ParamsKey)
       IN Request(Lookup(message, IdKey),
                  IF method.t = "text" THEN Str(Joined(method.s)) ELSE method,
                  IF params.t = "object" THEN NoParams ELSE params)

\* The messages written to stdin: a request with an unknown method, a
\* notification, a request whose text holds a character outside ASCII, and a
\* bare number.
Ask == Obj(<<Member(IdKey, Num(1)), Member(MethodKey, Txt(<<"x">>))>>)
Notify == Obj(<<Member(MethodKey, Txt(<<"x">>))>>)
AskWide == Obj(<<Member(IdKey, Num(2)), Member(MethodKey, Txt(<<Wide>>))>>)
WireMessages == {Ask, Notify, AskWide, Num(7)}

\* A piece of the text on stdin: a frame as writeStdioMessage writes it, a
\* line of JSON, a frame or line whose body is not JSON, or a header that
\* gives no length.
Framed(v) == [kind |-> "frame", ok |-> TRUE, v |-> v, text |-> writeStdioMessage(v)]
Line(v, eol) == [kind |-> "line", ok |-> TRUE, v |-> v, text |-> JSONstringify(v) \o eol]
NotJson == <<"{", "x", "}">>
BadFrame ==
  [kind |-> "frame", ok |-> FALSE, v |-> U,
   text |-> ContentLength \o <<" ">> \o Digits(byteLength(NotJson)) \o HeaderEnd \o NotJson]
BadLine == [kind |-> "line", ok |-> FALSE, v |-> U, text |-> NotJson \o <<LF>>]
NoLength ==
  [kind |-> "header", ok |-> FALSE, v |-> U,
   text |-> ContentLength \o <<" ", "x">> \o HeaderEnd]

Pieces ==
  {Framed(v) : v \in WireMessages}
  \cup {Line(v, <<LF>>) : v \in WireMessages}
  \cup {Line(v, <<CR, LF>>) : v \in {Num(7)}}
  \cup {BadFrame, BadLine, NoLength}

\* The pieces that start a text of two, and those that end it.
Firsts == {Framed(Ask), Framed(AskWide), Line(Ask, <<LF>>), BadFrame, BadLine, NoLength}
Seconds == {Framed(Ask), Framed(AskWide), Line(Notify, <<LF>>), NoLength}

\* The texts on stdin: one piece, or two.
Scripts == {<<p>> : p \in Pieces} \cup {<<p, q>> : p \in Firsts, q \in Seconds}

RECURSIVE TextOf(_)
TextOf(pieces) == IF pieces = <<>> THEN <<>> ELSE Head(pieces).text \o TextOf(Tail(pieces))

WireInit ==
  /\ transport = "stdio"
  /\ tools = <<Web, Alpha>>
  /\ Started
  /\ sent \in Scripts
  /\ input = TextOf(sent)
  /\ buffer = <<>>
  /\ got = <<>>
  /\ NoRest
  /\ NoSync
  /\ NoWatch

\* process.stdin.on('data') for a chunk holding the next k characters:
\* append it to the buffer, parse, dispatch what was parsed.
StdinData(k) ==
  /\ k \in 1..Len(input)
  /\ LET r == parseStdioMessages(buffer \o SubSeq(input, 1, k))
     IN /\ buffer' = r.buffer
        /\ got' = got \o r.messages
        /\ DataLoop([i \in 1..Len(r.messages) |-> Decoded(r.messages[i])])
  /\ input' = SubSeq(input, k + 1, Len(input))
  /\ UNCHANGED <<sent, server, sync, watch>>

WireNext == \E k \in 1..Len(input) : StdinData(k)

WireSpec == WireInit /\ [][WireNext]_vars

(***************************************************************************)
(* The REST server: POST /mcp/query (server.js)                            *)
(***************************************************************************)
MaxQueries == 2
RestDefaultTopK == 5
HistoryCap == 20

\* A request body; an absent member is U.
Body(query, topK, sessionId) ==
  [t |-> "object", query |-> query, topK |-> topK, sessionId |-> sessionId]

\* String(v) of a string, a number or undefined.
StringOf(v) ==
  CASE v.t = "number" -> Str(ToString(v.n))
    [] v.t = "undefined" -> Str("undefined")
    [] OTHER -> v

\* Map.has, Map.get and Map.set; the map is kept as its entries in insertion
\* order.
MapHas(m, k) == \E i \in 1..Len(m) : m[i].key = k

MapGet(m, k) ==
  IF MapHas(m, k) THEN m[CHOOSE i \in 1..Len(m) : m[i].key = k].value ELSE U

MapSet(m, k, v) ==
  IF MapHas(m, k)
  THEN [i \in 1..Len(m) |-> IF m[i].key = k THEN [key |-> k, value |-> v] ELSE m[i]]
  ELSE Append(m, [key |-> k, value |-> v])

\* req.body?.query || ''
QueryOf(body) == Or(body.query, Txt(<<>>))

\* Number(req.body?.topK || config.topK || 5)
QueryTopK(body, cfg) == Or(Or(body.topK, cfg), Num(RestDefaultTopK)).n

\* String(req.body.sessionId), whatever the member is.
SessionOfAlways(body) == StringOf(body.sessionId)

\* req.body?.sessionId ? String(req.body.sessionId) : null
SessionOf(body) ==
  IF Truthy(body.sessionId) THEN StringOf(body.sessionId) ELSE Null

\* The ids of every session's history.
previousToolIdsAny(m, sessionId) ==
  UNION {{m[i].value[j] : j \in 1..Len(m[i].value)} : i \in 1..Len(m)}

\* new Set(sessionHistory.get(sessionId) || [])
previousToolIds(m, sessionId) ==
  LET ids == IF MapHas(m, sessionId) THEN MapGet(m, sessionId) ELSE <<>>
  IN {ids[i] : i \in 1..Len(ids)}

\* score * 0.3, on the square of the cosine.
BoostedDown(score) == Frac(score.num * 9, score.den * 100)

\* score * 1.3; a score is kept as the square of the cosine, which the
\* factor multiplies by 1.69.
Boosted(score) == Frac(score.num * 169, score.den * 100)

\* The map step of the re-ranking: the matches of the session's history are
\* boosted, in the order search returned them.
Reweighted(matches, previous) ==
  [i \in 1..Len(matches) |->
     [matches[i] EXCEPT !.score = IF matches[i].tool.id \in previous
                                  THEN Boosted(matches[i].score)
                                  ELSE matches[i].score]]

rerankUnsorted(matches, previous) == Reweighted(matches, previous)

\* matches.map(...).sort((a, b) => b.score - a.score)
rerank(matches, previous) == SortDesc(Reweighted(matches, previous), <<>>)

\* The whole array, whatever n is.
LastAll(a, n) == a

\* array.slice(-n)
Last(a, n) == SubSeq(a, IF Len(a) > n THEN Len(a) - n + 1 ELSE 1, Len(a))

MatchedIds(matches) == [i \in 1..Len(matches) |-> matches[i].tool.id]

(***************************************************************************)
(* ActivityTracker (analytics.js); the timestamps of its entries are not   *)
(* kept.                                                                   *)
(***************************************************************************)
ActivityCap == 50

\* A template literal, by its parts.
Template(parts) == [t |-> "template", parts |-> parts]

\* recordQuery(text): count the trimmed text; an empty one is not counted.
recordQuery(qs, text) ==
  LET given == Or(text, Txt(<<>>))
      value == IF given.t = "text" THEN Txt(Trim(given.s)) ELSE StringOf(given)
      current == IF MapHas(qs, value) THEN MapGet(qs, value)
                 ELSE [text |-> value, count |-> 0]
  IN IF ~Truthy(value) THEN qs
     ELSE MapSet(qs, value, [current EXCEPT !.count = current.count + 1])

\* The event recordEvent builds.
ActivityEvent(type, message) ==
  [type |-> StringOf(Or(type, Str("info"))), message |-> StringOf(Or(message, Str("")))]

\* The event is added at the end and nothing is dropped.
recordEventAtEnd(act, type, message) == Append(act, ActivityEvent(type, message))

\* recordEvent(type, message): unshift, then slice(0, 50).
recordEvent(act, type, message) ==
  Take(<<ActivityEvent(type, message)>> \o act, ActivityCap)

\* getActivity(limit = 50)
getActivity(act, limit) == Take(act, IF limit = U THEN ActivityCap ELSE limit.n)

\* A call of analytics.recordEvent.
RecordsEvent(type, message) ==
  /\ activity' = recordEvent(activity, type, message)
  /\ recorded' = Append(recorded, ActivityEvent(type, message))

\* app.post('/mcp/query'): search, re-rank for the session, count the query
\* and log it, record the session's history, reply.
Query(body) ==
  /\ Len(restOut) < MaxQueries
  /\ LET query == QueryOf(body)
         topK == QueryTopK(body, configTopK)
         sessionId == SessionOf(body)
         raw == search(items, query.s, topK)
         matches == IF Truthy(sessionId)
                    THEN rerank(raw, previousToolIds(sessionHistory, sessionId))
                    ELSE raw
     IN /\ sessionHistory' =
             IF Truthy(sessionId)
             THEN MapSet(sessionHistory, sessionId, Last(MatchedIds(matches), HistoryCap))
             ELSE sessionHistory
        /\ queries' = recordQuery(queries, query)
        /\ RecordsEvent(Str("query"), Template(<<"Query: ", query, " - ", Len(matches), " results">>))
        /\ restOut' = Append(restOut, [body |-> body, query |-> query, matches |-> matches])
  /\ UNCHANGED <<proxy, wire, configTopK, sync, watch>>

\* The request bodies: query, topK and sessionId each absent or given, the
\* session named by a string or by a number, or by a falsy value.
RestBodies ==
  {Body(q, k, i) : q \in {U, Txt(<<"a">>)},
                   k \in {U, Num(1)},
                   i \in {U, Str("s"), Str("1"), Num(1), Num(0)}}
  \cup {Body(Txt(<<"-", " ">>), U, U)}

ManySize == 22

\* A registry larger than the history a session keeps.
ManyTools == [i \in 1..ManySize |-> BigTool(i)]

LoadedSize == 49

\* An activity log left in activity.json by an earlier run, newest first.
LoadedActivity ==
  [i \in 1..LoadedSize |-> ActivityEvent(Str("sync"), Num(LoadedSize + 1 - i))]

Reverse(a) == [i \in 1..Len(a) |-> a[Len(a) + 1 - i]]

\* The registry, config.topK and activity log the server starts with.
RestSetups ==
  {<<<<Alpha, Beta, Web, Generic, BogusUrl, Grpc, WebNoUrl, Bare>>, U, <<>>>>,
   <<ManyTools, Num(ManySize), <<>>>>,
   <<<<>>, U, LoadedActivity>>}

\* bootstrap: the registry and its index as loaded, no session yet.
RestInit ==
  /\ transport = "rest"
  /\ \E setup \in RestSetups :
       /\ tools = setup[1]
       /\ configTopK = setup[2]
       /\ activity = setup[3]
       /\ recorded = Reverse(setup[3])
  /\ Started
  /\ NoWire
  /\ sessionHistory = <<>>
  /\ restOut = <<>>
  /\ queries = <<>>
  /\ NoSync
  /\ NoWatch

RestNext == \E body \in RestBodies : Query(body)

RestSpec == RestInit /\ [][RestNext]_vars

(***************************************************************************)
(* The source routes of the REST server: the start-up sync and skill load, *)
(* syncSource, syncAll, POST /sources/sync, POST /sources/add and          *)
(* DELETE /sources/remove.  A source id and a tool's source are texts.     *)
(***************************************************************************)
MaxCalls == 2

\* A configured source; an absent member is U.
Source(type, path, url) == [type |-> type, path |-> path, url |-> url]

File(path) == Source(Str("file"), Txt(<<path>>), U)
Repo(url) == Source(Str("repo"), U, Txt(<<url>>))
WebMcp(url) == Source(Str("webmcp"), U, Txt(<<url>>))

\* source.path || source.url
SourceIdOf(source) == Or(source.path, source.url)

\* makeTool's id: the digest of `${source}:${name}`, taken as free of
\* collisions.
Digest(source, name) == source \o <<":">> \o name

\* A tool as parseMarkdownSkills makes it.
ParsedTool(source, name, description) ==
  makeTool(Digest(source, name), Txt(name), description, <<"c">>, source,
           Invoke(Str("noop"), U, U, U), FALSE)

\* A tool as parseSkillsDir makes it: its source is the path of its SKILL.md.
SkillTool(folder, name) ==
  makeTool(Digest(<<"skills/", folder, "/SKILL.md">>, name), Txt(name), <<"a">>,
           <<"c">>, <<"skills/", folder, "/SKILL.md">>,
           Invoke(Str("skill"), U, U, U), TRUE)

\* A tool belongs to a source when its source is the source id or starts
\* with the source id and '#'.
BelongsTo(tool, sourceId) ==
  tool.source = sourceId.s \/ StartsWith(tool.source, sourceId.s \o <<"#">>)

\* ToolRegistry.removeBySource: the tools of the other sources, in order.
removeBySource(ts, sourceId) ==
  SelectSeq(ts, LAMBDA tool : ~BelongsTo(tool, sourceId))

\* ToolRegistry.upsertMany: a tool whose id is registered replaces the
\* registered one in place, any other tool is added at the end.
upsert(ts, tool) ==
  IF \E i \in 1..Len(ts) : ts[i].id = tool.id
  THEN [i \in 1..Len(ts) |-> IF ts[i].id = tool.id THEN tool ELSE ts[i]]
  ELSE Append(ts, tool)

RECURSIVE upsertMany(_, _)
upsertMany(ts, parsed) ==
  IF parsed = <<>> THEN ts ELSE upsertMany(upsert(ts, Head(parsed)), Tail(parsed))

\* SourceMeta.remove
MapDelete(m, k) == SelectSeq(m, LAMBDA e : e.key # k)

\* The details kept of a source.
Details(status, lastSync, toolCount, error) ==
  [t |-> "object", status |-> status, lastSync |-> lastSync,
   toolCount |-> toolCount, error |-> error]

\* syncSource before it waits for the parser: the status becomes 'syncing',
\* lastSync and toolCount stay.
Syncing(meta, source) ==
  LET sourceId == SourceIdOf(source)
      current == MapGet(meta, sourceId)
  IN MapSet(meta, sourceId,
            Details(Str("syncing"), Get(current, "lastSync"),
                    Or(Get(current, "toolCount"), Num(0)), Null))

\* syncSource after a parse that succeeded: new Date() is the number of
\* events recorded so far.
Synced(meta, source, parsed, now) ==
  MapSet(meta, SourceIdOf(source),
         Details(Str("synced"), Num(now), Num(Len(parsed)), Null))

\* The catch block records the error and leaves the status as it is.
ErroredSyncing(meta, source, message) ==
  LET sourceId == SourceIdOf(source)
      current == MapGet(meta, sourceId)
  IN MapSet(meta, sourceId,
            Details(Or(Get(current, "status"), Str("syncing")),
                    Or(Get(current, "lastSync"), Null),
                    Or(Get(current, "toolCount"), Num(0)), message))

\* syncSource after a parse that threw.
Errored(meta, source, message) ==
  LET sourceId == SourceIdOf(source)
      current == MapGet(meta, sourceId)
  IN MapSet(meta, sourceId,
            Details(Str("error"), Or(Get(current, "lastSync"), Null),
                    Or(Get(current, "toolCount"), Num(0)), message))

\* A tool as parseWebMCPSource makes it.
WebTool(url, name) ==
  makeTool(Digest(url, name), Txt(name), <<"a">>, <<"c">>, url,
           Invoke(Str("webmcp"), Txt(url), U, Txt(name)), FALSE)

\* What reading a source comes to: the tools found in it, or a failure (a
\* missing file, a clone that fails, a page that cannot be opened).
Holds(parsed) == [failed |-> FALSE, parsed |-> parsed, message |-> U]
Unreadable(message) == [failed |-> TRUE, parsed |-> <<>>, message |-> message]

\* How the promise of parseSource settles.
Resolved(parsed) == [ok |-> TRUE, parsed |-> parsed, message |-> U]
Rejected(message) == [ok |-> FALSE, parsed |-> <<>>, message |-> message]

\* parseSource: a file or a repo that cannot be read throws;
\* parseWebMCPSource catches every failure and returns no tools; a source of
\* another type has no tools.
parseSource(source, read) ==
  CASE source.type = Str("webmcp") ->
         IF read.failed THEN Resolved(<<>>) ELSE Resolved(read.parsed)
    [] source.type \in {Str("file"), Str("repo")} ->
         IF read.failed THEN Rejected(read.message) ELSE Resolved(read.parsed)
    [] OTHER -> Resolved(<<>>)

\* What a source can hold when it is read: one tool, for a file or a repo
\* also three tools of which two have the same name, or nothing readable.  A
\* repo's tools are named after the file they are found in.
Reads(source) ==
  LET id == SourceIdOf(source).s
      name == IF source.type = Str("repo") THEN id \o <<"#", "r">> ELSE id
  IN IF source.type = Str("webmcp")
     THEN {Holds(<<WebTool(id, <<"a">>)>>), Unreadable(Str("failed"))}
     ELSE {Holds(<<ParsedTool(name, <<"a">>, <<"a">>)>>),
           Holds(<<ParsedTool(name, <<"a">>, <<"a">>), ParsedTool(name, <<"b">>, <<"b">>),
                   ParsedTool(name, <<"a">>, <<"b", " ", "a">>)>>),
           Unreadable(Str("failed"))}

\* What parseSkillsDir can find.
SkillSets == {<<>>, <<SkillTool("k", <<"a">>)>>}

\* The variables no source route touches.
untouched ==
  <<transport, clients, conn, sseOut, httpOut, stdout, fetched, inflight, log,
    nreq, crashed, wire, sessionHistory, restOut, configTopK, queries, watch>>

\* The reply to request n of the /sources routes.
SyncReply(n, status, body) == [n |-> n, status |-> status, body |-> body]

\* A syncSource call waiting for parseSource: the request it serves (0 for
\* the start-up), the route, the source, and for syncAll the position in the
\* array it iterates, which is config.sources (live) or the array that
\* config.sources was before a removal replaced it.
Waiting(n, route, source, at, array, live) ==
  [n |-> n, route |-> route, source |-> source, at |-> at, array |-> array,
   live |-> live]

\* parseSource reads a file source without yielding to another request.
Busy == \E p \in pending : p.source.type = Str("file")

\* Calls of analytics.recordEvent, one after the other.
RECURSIVE recordAll(_, _)
recordAll(act, events) ==
  IF events = <<>> THEN act
  ELSE recordAll(recordEvent(act, Head(events)[1], Head(events)[2]), Tail(events))

RecordsEvents(events) ==
  /\ activity' = recordAll(activity, events)
  /\ recorded' = recorded \o [i \in 1..Len(events) |->
                                ActivityEvent(events[i][1], events[i][2])]

\* The skill load of bootstrap: upsertMany and rebuild when a skill is found.
LoadsSkills(ts, its) ==
  \E skills \in SkillSets :
    /\ tools' = IF skills # <<>> THEN upsertMany(ts, skills) ELSE ts
    /\ items' = IF skills # <<>> THEN rebuild(tools') ELSE its

\* bootstrap up to its first wait: syncAll when the registry is empty and a
\* source is configured, then the skill load.
Boot ==
  /\ phase = "boot"
  /\ pending = {}
  /\ IF Len(tools) = 0 /\ Len(sources) > 0
     THEN /\ sourceMeta' = Syncing(sourceMeta, sources[1])
          /\ pending' = {Waiting(0, "boot", sources[1], 1, <<>>, TRUE)}
          /\ UNCHANGED <<tools, items, phase>>
     ELSE /\ LoadsSkills(tools, items)
          /\ phase' = "listening"
          /\ UNCHANGED <<sourceMeta, pending>>
  /\ UNCHANGED <<sources, syncOut, ncalls, failed, activity, recorded, untouched>>

\* syncSource from the point where parseSource settles, and what its caller
\* does next: syncAll goes on to the next source, a route replies, bootstrap
\* loads the skills or rejects.
Settle(p, read) ==
  /\ p \in pending
  /\ p.source.type = Str("file") \/ ~Busy
  /\ failed' = IF read.failed THEN Append(failed, <<p.n, p.at, read.message>>)
                ELSE failed
  /\ LET sourceId == SourceIdOf(p.source)
         outcome == parseSource(p.source, read)
         array == IF p.live THEN sources ELSE p.array
         more == outcome.ok /\ p.route \in {"boot", "syncAll"} /\ p.at < Len(array)
         next == array[p.at + 1]
         synced == upsertMany(removeBySource(tools, sourceId), outcome.parsed)
         meta == IF outcome.ok
                 THEN Synced(sourceMeta, p.source, outcome.parsed, Len(recorded) + 1)
                 ELSE Errored(sourceMeta, p.source, outcome.message)
         event == IF outcome.ok
                  THEN <<Str("sync"), Template(<<"Synced: ", sourceId, " - ",
                                                 Len(outcome.parsed), " tools">>)>>
                  ELSE <<Str("error"), Template(<<"Error syncing: ", sourceId, " - ",
                                                  outcome.message>>)>>
         added == IF outcome.ok /\ p.route = "add"
                  THEN <<<<Str("source"), Template(<<"Source added: ", sourceId>>)>>>>
                  ELSE <<>>
         reply == CASE ~outcome.ok ->
                         SyncReply(p.n, 500, [error |-> outcome.message])
                    [] outcome.ok /\ p.route = "sync" ->
                         SyncReply(p.n, 200, [synced |-> 1, added |-> Len(outcome.parsed)])
                    [] outcome.ok /\ p.route = "syncAll" ->
                         SyncReply(p.n, 200, [synced |-> Len(sources)])
                    [] OTHER ->
                         SyncReply(p.n, 200, [ok |-> TRUE, source |-> p.source])
     IN /\ RecordsEvents(<<event>> \o added)
        /\ sourceMeta' = IF more THEN Syncing(meta, next) ELSE meta
        /\ pending' = (pending \ {p}) \cup
                      (IF more THEN {[p EXCEPT !.at = p.at + 1, !.source = next]}
                       ELSE {})
        /\ syncOut' = IF more \/ p.route = "boot" THEN syncOut
                      ELSE Append(syncOut, reply)
        /\ IF p.route = "boot" /\ ~more
           THEN IF outcome.ok
                THEN LoadsSkills(synced, rebuild(synced)) /\ phase' = "listening"
                ELSE UNCHANGED <<tools, items>> /\ phase' = "failed"
           ELSE /\ tools' = IF outcome.ok THEN synced ELSE tools
                /\ items' = IF outcome.ok THEN rebuild(tools') ELSE items
                /\ phase' = phase
  /\ UNCHANGED <<sources, ncalls, untouched>>

\* A request reaches a /sources route.
Received ==
  /\ phase = "listening"
  /\ ncalls < MaxCalls
  /\ ~Busy
  /\ ncalls' = ncalls + 1

\* config.sources.find((s) => (s.path || s.url) === target)
FindSource(target) ==
  LET found == {i \in 1..Len(sources) : SourceIdOf(sources[i]) = target}
  IN IF found = {} THEN U
     ELSE sources[CHOOSE i \in found : \A j \in found : i <= j]

\* app.post('/sources/sync') up to its first wait.
SyncRoute(target) ==
  /\ Received
  /\ LET source == FindSource(target)
         first == IF Truthy(target) THEN source ELSE sources[1]
         route == IF Truthy(target) THEN "sync" ELSE "syncAll"
     IN IF Truthy(target) /\ source = U
        THEN /\ syncOut' = Append(syncOut, SyncReply(ncalls', 404,
                                                     [error |-> "Source not found"]))
             /\ UNCHANGED <<sourceMeta, pending>>
        ELSE IF ~Truthy(target) /\ sources = <<>>
        THEN /\ syncOut' = Append(syncOut, SyncReply(ncalls', 200, [synced |-> 0]))
             /\ UNCHANGED <<sourceMeta, pending>>
        ELSE /\ sourceMeta' = Syncing(sourceMeta, first)
             /\ pending' = pending \cup {Waiting(ncalls', route, first, 1, <<>>,
                                                 ~Truthy(target))}
             /\ UNCHANGED syncOut
  /\ UNCHANGED <<tools, items, sources, failed, phase, activity, recorded, untouched>>

\* The body of POST /sources/add; an absent member is U.
AddBody(type, path, url) == [t |-> "object", type |-> type, path |-> path, url |-> url]

\* The source is added without a look at the configured ones.
AddUnchecked(body) ==
  /\ Received
  /\ LET normalizedType == StringOf(body.type)
         id == IF normalizedType = Str("file") THEN body.path ELSE body.url
         refused ==
           CASE ~Truthy(body.type) -> "type is required"
             [] normalizedType = Str("file") /\ ~Truthy(body.path) ->
                  "path is required for file source"
             [] normalizedType \in {Str("repo"), Str("webmcp")} /\ ~Truthy(body.url) ->
                  "url is required for repo/webmcp source"
             [] normalizedType \notin {Str("file"), Str("repo"), Str("webmcp")} ->
                  "invalid source type"
             [] OTHER -> ""
         exists == FALSE
         source == IF normalizedType = Str("file")
                   THEN Source(normalizedType, body.path, U)
                   ELSE Source(normalizedType, U, body.url)
     IN IF refused # "" \/ exists
        THEN /\ syncOut' = Append(syncOut,
                  IF refused # "" THEN SyncReply(ncalls', 400, [error |-> refused])
                  ELSE SyncReply(ncalls', 409, [error |-> "Source already exists"]))
             /\ UNCHANGED <<sources, sourceMeta, pending>>
        ELSE /\ sources' = Append(sources, source)
             /\ sourceMeta' = Syncing(sourceMeta, source)
             /\ pending' = pending \cup {Waiting(ncalls', "add", source, 1, <<>>, FALSE)}
             /\ UNCHANGED syncOut
  /\ UNCHANGED <<tools, items, failed, phase, activity, recorded, untouched>>

\* app.post('/sources/add') up to its first wait.
Add(body) ==
  /\ Received
  /\ LET normalizedType == StringOf(body.type)
         id == IF normalizedType = Str("file") THEN body.path ELSE body.url
         refused ==
           CASE ~Truthy(body.type) -> "type is required"
             [] normalizedType = Str("file") /\ ~Truthy(body.path) ->
                  "path is required for file source"
             [] normalizedType \in {Str("repo"), Str("webmcp")} /\ ~Truthy(body.url) ->
                  "url is required for repo/webmcp source"
             [] normalizedType \notin {Str("file"), Str("repo"), Str("webmcp")} ->
                  "invalid source type"
             [] OTHER -> ""
         exists == \E i \in 1..Len(sources) : SourceIdOf(sources[i]) = id
         source == IF normalizedType = Str("file")
                   THEN Source(normalizedType, body.path, U)
                   ELSE Source(normalizedType, U, body.url)
     IN IF refused # "" \/ exists
        THEN /\ syncOut' = Append(syncOut,
                  IF refused # "" THEN SyncReply(ncalls', 400, [error |-> refused])
                  ELSE SyncReply(ncalls', 409, [error |-> "Source already exists"]))
             /\ UNCHANGED <<sources, sourceMeta, pending>>
        ELSE /\ sources' = Append(sources, source)
             /\ sourceMeta' = Syncing(sourceMeta, source)
             /\ pending' = pending \cup {Waiting(ncalls', "add", source, 1, <<>>, FALSE)}
             /\ UNCHANGED syncOut
  /\ UNCHANGED <<tools, items, failed, phase, activity, recorded, untouched>>

\* The removal drops the tools of the source and leaves the index as it was.
RemoveKeepsIndex(sourceId) ==
  /\ Received
  /\ LET kept == SelectSeq(sources, LAMBDA s : SourceIdOf(s) # sourceId)
     IN IF ~Truthy(sourceId)
        THEN /\ syncOut' = Append(syncOut, SyncReply(ncalls', 400,
                                                     [error |-> "source is required"]))
             /\ UNCHANGED <<sources, tools, items, sourceMeta, pending, activity, recorded>>
        ELSE /\ sources' = kept
             /\ pending' = {IF p.live THEN [p EXCEPT !.array = sources, !.live = FALSE]
                            ELSE p : p \in pending}
             /\ IF Len(kept) = Len(sources)
                THEN /\ syncOut' = Append(syncOut, SyncReply(ncalls', 404,
                                                             [error |-> "Source not found"]))
                     /\ UNCHANGED <<tools, items, sourceMeta, activity, recorded>>
                ELSE /\ tools' = removeBySource(tools, sourceId)
                     /\ items' = items
                     /\ sourceMeta' = MapDelete(sourceMeta, sourceId)
                     /\ RecordsEvents(<<<<Str("source"),
                                          Template(<<"Source deleted: ", sourceId>>)>>>>)
                     /\ syncOut' = Append(syncOut, SyncReply(ncalls', 200,
                                            [ok |-> TRUE, removed |-> sourceId]))
  /\ UNCHANGED <<failed, phase, untouched>>

\* app.delete('/sources/remove'): config.sources becomes a new array, so a
\* syncAll under way keeps iterating the array it started on.
Remove(sourceId) ==
  /\ Received
  /\ LET kept == SelectSeq(sources, LAMBDA s : SourceIdOf(s) # sourceId)
     IN IF ~Truthy(sourceId)
        THEN /\ syncOut' = Append(syncOut, SyncReply(ncalls', 400,
                                                     [error |-> "source is required"]))
             /\ UNCHANGED <<sources, tools, items, sourceMeta, pending, activity, recorded>>
        ELSE /\ sources' = kept
             /\ pending' = {IF p.live THEN [p EXCEPT !.array = sources, !.live = FALSE]
                            ELSE p : p \in pending}
             /\ IF Len(kept) = Len(sources)
                THEN /\ syncOut' = Append(syncOut, SyncReply(ncalls', 404,
                                                             [error |-> "Source not found"]))
                     /\ UNCHANGED <<tools, items, sourceMeta, activity, recorded>>
                ELSE /\ tools' = removeBySource(tools, sourceId)
                     /\ items' = rebuild(tools')
                     /\ sourceMeta' = MapDelete(sourceMeta, sourceId)
                     /\ RecordsEvents(<<<<Str("source"),
                                          Template(<<"Source deleted: ", sourceId>>)>>>>)
                     /\ syncOut' = Append(syncOut, SyncReply(ncalls', 200,
                                            [ok |-> TRUE, removed |-> sourceId]))
  /\ UNCHANGED <<failed, phase, untouched>>

\* The sources the requests name, configured or not at the time, and the
\* bodies of the adds, complete or not.
Targets == {U, Txt(<<"f1">>), Txt(<<"u1">>)}

AddBodies ==
  {AddBody(Str("file"), Txt(<<"f1">>), U), AddBody(Str("repo"), U, Txt(<<"u1">>)),
   AddBody(Str("file"), U, Txt(<<"u1">>)), AddBody(Str("webmcp"), Txt(<<"f1">>), U),
   AddBody(U, Txt(<<"f1">>), U), AddBody(Str("ftp"), U, Txt(<<"u1">>))}

\* What bootstrap loads: nothing, with or without configured sources, or the
\* registry, index and source details a run that synced a file and a page
\* left.
BothSources == <<Repo("u1"), File("f1")>>
WithPage == <<File("f1"), WebMcp("u1")>>

Left == <<ParsedTool(<<"f1">>, <<"a">>, <<"a">>), WebTool(<<"u1">>, <<"a">>)>>

LeftMeta ==
  Synced(Synced(<<>>, WithPage[1], <<Left[1]>>, 1), WithPage[2], <<Left[2]>>, 2)

SyncSetups ==
  {<<<<>>, <<>>, <<>>>>, <<BothSources, <<>>, <<>>>>, <<WithPage, Left, LeftMeta>>}

SyncInit ==
  /\ transport = "rest"
  /\ \E setup \in SyncSetups :
       /\ sources = setup[1]
       /\ tools = setup[2]
       /\ sourceMeta = setup[3]
  /\ Started
  /\ NoWire
  /\ NoRest
  /\ pending = {}
  /\ syncOut = <<>>
  /\ ncalls = 0
  /\ failed = <<>>
  /\ phase = "boot"
  /\ NoWatch

SyncNext ==
  \/ Boot
  \/ \E p \in pending : \E read \in Reads(p.source) : Settle(p, read)
  \/ \E target \in Targets : SyncRoute(target)
  \/ \E body \in AddBodies : Add(body)
  \/ \E sourceId \in Targets : Remove(sourceId)

SyncSpec == SyncInit /\ [][SyncNext]_vars

(***************************************************************************)
(* --watch: setupWatchers of cli.js                                        *)
(***************************************************************************)
\* The number of change events followed.
MaxChanges == 3

\* The directory given to setupWatchers, and a directory that can be
\* created below it.
RootDir == "root"
SubDir == "sub"

\* The properties of the object bootstrap returns.
RuntimeKeys == {"app", "server", "tools", "index", "syncAll", "sourceMeta", "analytics"}

\* runtime.<name>: a property the object does not have reads as undefined.
Property(keys, name) == IF name \in keys THEN "function" ELSE "undefined"

\* The callbacks setupWatchers is followed with: runtime.rebuildIndex, as the
\* start and scan actions pass it, and a callback that is an async function.
Callbacks == {Property(RuntimeKeys, "rebuildIndex"), "function"}

\* A rebuild attempt that ended: the number of changes detected when it
\* started, and whether onRebuild resolved.
Attempt(at, ok) == [at |-> at, ok |-> ok]

\* setupWatchers: the root directory is watched, both flags are false.
setupWatchers(callback) ==
  /\ onRebuild = callback
  /\ watchedDirs = {RootDir}
  /\ rebuilding = FALSE
  /\ rebuildScheduled = FALSE
  /\ timers = 0
  /\ running = {}
  /\ changes = 0
  /\ rebuilds = <<>>

\* scheduleRebuild: a timer is set unless one is pending.
scheduleRebuild ==
  IF rebuildScheduled
  THEN UNCHANGED <<rebuildScheduled, timers>>
  ELSE /\ rebuildScheduled' = TRUE
       /\ timers' = timers + 1

\* The fs.watch listener of a watched directory: the directories the change
\* created (none for any other change) are watched too, then a rebuild is
\* scheduled.
Change(dir, made) ==
  /\ onRebuild # "none"
  /\ changes < MaxChanges
  /\ dir \in watchedDirs
  /\ changes' = changes + 1
  /\ watchedDirs' = watchedDirs \cup made
  /\ scheduleRebuild
  /\ UNCHANGED <<onRebuild, rebuilding, running, rebuilds>>
  /\ UNCHANGED <<proxy, wire, server, sync>>

\* The timer callback: nothing while a rebuild runs; else onRebuild is
\* called.  Calling undefined throws inside the try block, so the attempt
\* ends at once as a failure; a function is awaited.
TimerFires ==
  /\ timers > 0
  /\ timers' = timers - 1
  /\ rebuildScheduled' = FALSE
  /\ IF rebuilding
     THEN UNCHANGED <<rebuilding, running, rebuilds>>
     ELSE IF onRebuild = "function"
          THEN /\ rebuilding' = TRUE
               /\ running' = running \cup {[at |-> changes, n |-> Len(rebuilds) + 1]}
               /\ UNCHANGED rebuilds
          ELSE /\ rebuilding' = FALSE
               /\ rebuilds' = Append(rebuilds, Attempt(changes, FALSE))
               /\ UNCHANGED running
  /\ UNCHANGED <<onRebuild, watchedDirs, changes>>
  /\ UNCHANGED <<proxy, wire, server, sync>>

\* The timer callback without its catch and finally: the flag stays set when
\* the rebuild fails.
RebuildSettlesNoFinally(r, ok) ==
  /\ r \in running
  /\ running' = running \ {r}
  /\ rebuilds' = Append(rebuilds, Attempt(r.at, ok))
  /\ rebuilding' = IF ok THEN FALSE ELSE rebuilding
  /\ UNCHANGED <<onRebuild, watchedDirs, rebuildScheduled, timers, changes>>
  /\ UNCHANGED <<proxy, wire, server, sync>>

\* The awaited onRebuild settles: resolved or rejected, the finally block
\* clears the flag.
RebuildSettles(r, ok) ==
  /\ r \in running
  /\ running' = running \ {r}
  /\ rebuilds' = Append(rebuilds, Attempt(r.at, ok))
  /\ rebuilding' = FALSE
  /\ UNCHANGED <<onRebuild, watchedDirs, rebuildScheduled, timers, changes>>
  /\ UNCHANGED <<proxy, wire, server, sync>>

\* start --watch or scan --watch after bootstrap returned; the server's own
\* state is not followed here.
WatchInit ==
  /\ transport = "rest"
  /\ tools = <<>>
  /\ Started
  /\ NoWire
  /\ NoRest
  /\ NoSync
  /\ \E callback \in Callbacks : setupWatchers(callback)

WatchNext ==
  \/ \E dir \in {RootDir, SubDir} : \E made \in {{}, {SubDir}} : Change(dir, made)
  \/ TimerFires
  \/ \E r \in running : \E ok \in BOOLEAN : RebuildSettles(r, ok)

WatchSpec == WatchInit /\ [][WatchNext]_vars

\* A timer that was set fires, and a promise that was awaited settles.
WatchFairSpec ==
  /\ WatchSpec
  /\ WF_vars(TimerFires)
  /\ WF_vars(\E r \in running : \E ok \in BOOLEAN : RebuildSettles(r, ok))

(***************************************************************************)
(* Properties                                                              *)
(***************************************************************************)
\* The handleRpc calls that have finished.
Logged == {log[i] : i \in 1..Len(log)}

IdOf(x) == Get(x.request, "id")
MethodOf(x) == Get(x.request, "method")
ParamsOf(x) == Get(x.request, "params")

FourMethods ==
  {Str("initialize"), Str("tools/list"), Str("tools/call"), Str("completion/complete")}

\* v is a JSON-RPC error response with this code, echoing this id.
ErrorWith(v, code, id) ==
  /\ v.t = "response"
  /\ v.id = id
  /\ v.result = U
  /\ v.error # U
  /\ v.error.code = code

\* v is a JSON-RPC success response whose result is an error result of
\* callTool carrying this message.
IsErrorResult(v, id, message) ==
  /\ v.t = "response"
  /\ v.id = id
  /\ v.error = U
  /\ v.result.isError = TRUE
  /\ v.result.content.m = message

\* C1: a request without an id makes handleRpc return null, whatever the
\* method and whatever the outcome, every error outcome included.
C1_NotificationReturnsNull ==
  \A e \in Logged : IdOf(e) = U => (e.k = "return" /\ e.v = Null)

\* C2: a message without an id gets no response on either transport: stdio
\* writes no frame for it and the SSE POST route broadcasts no message event
\* for it.
C2_NotificationIsSilent ==
  \A e \in Logged :
    IdOf(e) = U =>
      /\ \A i \in 1..Len(stdout) : stdout[i].n # e.n
      /\ \A c \in Conns : \A i \in 1..Len(sseOut[c]) :
           sseOut[c][i].event = "message" => sseOut[c][i].n # e.n

\* C3: for every decoded message (any JSON value, params absent, null or any
\* value) handleRpc returns a response or null and never throws, so the
\* process goes on handling the messages that follow.
C3_DispatchNeverThrows ==
  /\ ~crashed
  /\ \A e \in Logged : e.k = "return" /\ (e.v = Null \/ e.v.t = "response")

\* C4 as stated: a request whose method is present and not one of the four
\* gets error -32601 with its id when it has an id, and nothing without one.
C4_AnyOtherMethod ==
  \A e \in Logged :
    (MethodOf(e) # U /\ MethodOf(e) \notin FourMethods) =>
      /\ e.k = "return"
      /\ IF IdOf(e) # U THEN ErrorWith(e.v, -32601, IdOf(e)) ELSE e.v = Null

\* C4: a request whose method is a truthy value (a non-empty string, a
\* non-zero number) other than the four gets error -32601 with its id when it
\* has an id (null included), and nothing without one.
C4_UnknownMethod ==
  \A e \in Logged :
    (Truthy(MethodOf(e)) /\ MethodOf(e) \notin FourMethods) =>
      /\ e.k = "return"
      /\ IF IdOf(e) # U THEN ErrorWith(e.v, -32601, IdOf(e)) ELSE e.v = Null

\* An unknown method was answered -32601, and the same message without an id
\* was answered with nothing.
C4_Witness ==
  \E e1 \in Logged : \E e2 \in Logged :
    /\ MethodOf(e1) = Str("foo/bar") /\ IdOf(e1) = Num(7)
    /\ ErrorWith(e1.v, -32601, Num(7))
    /\ e2.request = [e1.request EXCEPT !.id = U]
    /\ e2.v = Null

\* C5: a request with no method gets error -32600 with its id when it has an
\* id, and nothing when it has neither.
C5_MissingMethod ==
  \A e \in Logged :
    MethodOf(e) = U =>
      /\ e.k = "return"
      /\ IF IdOf(e) # U THEN ErrorWith(e.v, -32600, IdOf(e)) ELSE e.v = Null

\* A request with an id and no method was answered -32600.
C5_Witness ==
  \E e \in Logged :
    /\ e.request.t = "object" /\ MethodOf(e) = U /\ IdOf(e) = Num(7)
    /\ ErrorWith(e.v, -32600, Num(7))

\* The handlers that have made an outbound call: the suspended ones and the
\* finished ones that waited for a reply.
Called == inflight \cup {e \in Logged : e.reply # U}

\* x is a tools/call whose params can be read.
IsCall(x) == MethodOf(x) = Str("tools/call") /\ ParamsOf(x) # Null

\* No registered tool has the toolId (of metadata or of params) or the name
\* the call gives.
Unresolvable(x) ==
  LET given == {Get(Get(ParamsOf(x), "metadata"), "toolId"), Get(ParamsOf(x), "toolId")}
  IN \A i \in 1..Len(tools) :
       Str(tools[i].id) \notin given /\ tools[i].name # Get(ParamsOf(x), "name")

\* C6: a tools/call with an id whose toolId and name resolve to no registered
\* tool never throws and never gets a JSON-RPC error: its response is a
\* result with isError true and the text "Tool not found.", and it makes no
\* outbound call.
C6_UnresolvedToolIsError ==
  /\ \A e \in Logged :
       (IsCall(e) /\ Unresolvable(e) /\ IdOf(e) # U) =>
         e.k = "return" /\ IsErrorResult(e.v, IdOf(e), "Tool not found.")
  /\ \A x \in Called : ~Unresolvable(x)

\* A tools/call naming no registered tool was answered "Tool not found.".
C6_Witness ==
  \E e \in Logged :
    /\ IsCall(e) /\ Unresolvable(e) /\ IdOf(e) = Num(7)
    /\ Get(ParamsOf(e), "toolId") = Str("nope")
    /\ IsErrorResult(e.v, Num(7), "Tool not found.")

\* The upstream call failed: fetch rejected, or resolved with an HTTP failure
\* status.
UpstreamFailed(reply) == ~reply.ok \/ reply.status >= 400

\* C7: for a tool that calls upstream, every upstream failure (a network
\* failure or an HTTP failure response) gives a result with isError true,
\* never a JSON-RPC error.
C7_UpstreamFailureIsError ==
  \A e \in Logged :
    (e.reply # U /\ UpstreamFailed(e.reply) /\ IdOf(e) # U) =>
      /\ e.v.t = "response"
      /\ e.v.error = U
      /\ e.v.result.isError = TRUE

\* The result tools/call gives for an invoke descriptor it does not support.
IsUnsupported(e) ==
  /\ e.k = "return"
  /\ IdOf(e) # U => IsErrorResult(e.v, IdOf(e), "Unsupported invoke type")
  /\ e.reply = U

FourTypes == {Str("noop"), Str("skill"), Str("webmcp"), Str("generic")}

GivenId(x) == ToolIdOf(ParamsOf(x))
WithId(x) == {i \in 1..Len(tools) : Truthy(GivenId(x)) /\ Str(tools[i].id) = GivenId(x)}
WithName(x) == {i \in 1..Len(tools) : tools[i].name = Get(ParamsOf(x), "name")}
First(S) == CHOOSE i \in S : \A j \in S : i <= j

\* C9: tools/call resolves the tool by the given id first, and falls back to
\* the first tool with exactly the given name only when no tool has that id.
C9_IdBeforeName ==
  \A x \in Logged \cup inflight :
    IsCall(x) =>
      x.called = IF WithId(x) # {} THEN tools[First(WithId(x))]
                 ELSE IF WithName(x) # {} THEN tools[First(WithName(x))]
                 ELSE Null

\* A call whose id names one tool and whose name names another called the
\* tool with the id.
C9_Witness ==
  \E x \in Logged \cup inflight :
    /\ IsCall(x) /\ WithId(x) # {} /\ WithName(x) # {}
    /\ First(WithId(x)) # First(WithName(x))
    /\ x.called = tools[First(WithId(x))]
    /\ x.called.name # Get(ParamsOf(x), "name")

\* The tools of the search results for this hint.
Found(hint, topK) ==
  LET found == search(items, hint, topK)
  IN MapSchema([i \in 1..Len(found) |-> found[i].tool])

\* x is a tools/list with an id whose params can be read.
IsList(x) == MethodOf(x) = Str("tools/list") /\ ParamsOf(x) # Null /\ IdOf(x) # U

HintOf(x) == Get(ParamsOf(x), "contextHint")
TopKGiven(x) == Get(ParamsOf(x), "topK")
Listed(e) == e.v.result.tools

\* C10 as stated: every registered tool when contextHint is absent or empty;
\* otherwise exactly the tools of the top-topK search results for the hint,
\* topK being 10 when absent, hence at most topK tools.
C10_AbsentOrEmpty ==
  \A e \in Logged :
    IsList(e) =>
      /\ e.k = "return"
      /\ IF HintOf(e) \in {U, Txt(<<>>)}
         THEN Listed(e) = MapSchema(tools)
         ELSE LET topK == IF TopKGiven(e) = U THEN 10 ELSE TopKGiven(e).n
              IN Listed(e) = Found(HintOf(e).s, topK) /\ Len(Listed(e)) <= topK

\* A hint with nothing but white space in it.
Blank(hint) == ~Truthy(hint) \/ \A i \in 1..Len(hint.s) : IsSpace(hint.s[i])

\* C10: every registered tool when contextHint is absent, empty or blank;
\* otherwise exactly the tools of the top-topK search results for the hint,
\* topK being 10 when absent or 0, hence at most topK tools.
C10_ToolsList ==
  \A e \in Logged :
    IsList(e) =>
      /\ e.k = "return"
      /\ IF Blank(HintOf(e))
         THEN Listed(e) = MapSchema(tools)
         ELSE LET topK == IF Truthy(TopKGiven(e)) THEN TopKGiven(e).n ELSE 10
              IN Listed(e) = Found(HintOf(e).s, topK) /\ Len(Listed(e)) <= topK

\* A tools/list with a hint returned topK tools of a larger registry.
C10_Witness ==
  \E e \in Logged :
    /\ IsList(e) /\ ~Blank(HintOf(e)) /\ Truthy(TopKGiven(e))
    /\ Len(Listed(e)) = TopKGiven(e).n
    /\ Len(Listed(e)) < Len(tools)
    /\ \E i \in 1..Len(tools) : toMcpSchema(tools[i]) = Listed(e)[1]

\* x is a completion/complete with an id whose params can be read and whose
\* messages, when given, are an array of objects.
IsComplete(x) ==
  /\ MethodOf(x) = Str("completion/complete") /\ ParamsOf(x) # Null /\ IdOf(x) # U
  /\ LET ms == Get(ParamsOf(x), "messages")
     IN ms = U \/ (ms.t = "array" /\ \A i \in 1..Len(ms.a) : ms.a[i].t = "object")

\* The (tool schema, score) pairs of these matches.
Pairs(matches) ==
  [i \in 1..Len(matches) |->
     [tool |-> toMcpSchema(matches[i].tool), score |-> matches[i].score]]

\* The first k registered tools, each with score 0.
Prefix(k) ==
  [i \in 1..(IF k < Len(tools) THEN k ELSE Len(tools)) |->
     [tool |-> toMcpSchema(tools[i]), score |-> ZeroScore]]

Suggested(e) == e.v.result.completion

\* C11 as stated: the ranked pairs of a search for the concatenated text when
\* it is not empty, else the first topK registered tools in registry order
\* with score 0; topK is 10 when absent.
C11_TopKAsGiven ==
  \A e \in Logged :
    IsComplete(e) =>
      LET text == CompletionText(ParamsOf(e))
          topK == IF TopKGiven(e) = U THEN 10 ELSE TopKGiven(e).n
      IN /\ e.k = "return"
         /\ Suggested(e) = IF text # <<>> THEN Pairs(search(items, text, topK))
                           ELSE Prefix(topK)

\* C11: the ranked pairs of a search for the concatenated text when it is not
\* empty, else the first topK registered tools in registry order with score
\* 0; topK is 10 when absent or 0.
C11_Completion ==
  \A e \in Logged :
    IsComplete(e) =>
      LET text == CompletionText(ParamsOf(e))
          topK == IF Truthy(TopKGiven(e)) THEN TopKGiven(e).n ELSE 10
      IN /\ e.k = "return"
         /\ Suggested(e) = IF text # <<>> THEN Pairs(search(items, text, topK))
                           ELSE Prefix(topK)

\* A completion with no text got the first 10 tools of a registry of more,
\* each with score 0.
C11_Witness ==
  \E e \in Logged :
    /\ IsComplete(e) /\ CompletionText(ParamsOf(e)) = <<>>
    /\ Len(Suggested(e)) = 10 /\ Len(tools) > 10
    /\ \A i \in 1..10 : Suggested(e)[i] = [tool |-> toMcpSchema(tools[i]), score |-> ZeroScore]

\* The values of the pieces the text on stdin was made of that are messages.
Values(pieces) ==
  LET good == SelectSeq(pieces, LAMBDA piece : piece.ok)
  IN [i \in 1..Len(good) |-> good[i].v]

\* C12: a text that is one well-formed message, length-framed or a line of
\* JSON, delivered in any number of chunks, yields no message while it is
\* incomplete and exactly that message once its last chunk has arrived, with
\* nothing left in the buffer.
C12_AnySplit ==
  (Len(sent) = 1 /\ sent[1].ok) =>
    IF input # <<>> THEN got = <<>>
    ELSE got = <<sent[1].v>> /\ buffer = <<>>

\* C13: frames written by writeStdioMessage, fed to the parser, yield exactly
\* their messages, each frame consumed exactly, whatever characters the
\* bodies hold.
C13_ByteCountDelimits ==
  ((\A i \in 1..Len(sent) : sent[i] = Framed(sent[i].v)) /\ input = <<>>) =>
    got = Values(sent) /\ buffer = <<>>

\* C14: a framed body or a line that is not JSON yields no message and no
\* response, and every well-formed message after it in the text is parsed
\* and dispatched.
C14_MalformedIsDropped ==
  (sent[1] \in {BadFrame, BadLine} /\ input = <<>>) =>
    /\ got = Values(sent)
    /\ Len(log) = Len(got)
    /\ \A i \in 1..Len(log) : log[i].request = Decoded(got[i])
    /\ \A i \in 1..Len(stdout) : log[stdout[i].n].v = stdout[i].body

\* C15: on stdio each parsed message causes at most one write, and every
\* write is one Content-Length frame holding the response to a parsed
\* message, whether that message came framed or as a line.
C15_AtMostOneFrame ==
  /\ Len(stdout) <= nreq
  /\ \A i \in 1..Len(stdout) : \A j \in 1..Len(stdout) :
       i # j => stdout[i].n # stdout[j].n
  /\ \A i \in 1..Len(stdout) :
       /\ stdout[i].n \in 1..nreq
       /\ stdout[i].frame = "Content-Length"
       /\ stdout[i].body.t = "response"
       /\ \E e \in Logged : e.n = stdout[i].n /\ e.v = stdout[i].body

\* A request that came as a line and one that came framed were each answered
\* with one frame.
C15_Witness ==
  /\ input = <<>>
  /\ sent = <<Line(Ask, <<LF>>), Framed(Ask)>>
  /\ Len(stdout) = 2 /\ stdout[1].n = 1 /\ stdout[2].n = 2

\* C16: no two requests are in dispatch at once: while a request waits for
\* its upstream reply, no later message has been dispatched.
C16_OneAtATime ==
  \A p \in inflight : \A x \in Logged \cup inflight : x.n <= p.n

\* On every stream ready is the first event and the only ready event; the
\* subscriber set holds exactly the connections that are open.
ReadyFirst ==
  /\ \A c \in Conns :
       /\ conn[c] = "new" <=> sseOut[c] = <<>>
       /\ \A i \in 1..Len(sseOut[c]) : sseOut[c][i].event = "ready" <=> i = 1
  /\ clients = {c \in Conns : conn[c] = "open"}

\* A connection that has disconnected stays out of the subscriber set and is
\* not written to.
ClosedIsLeftAlone ==
  \A c \in Conns :
    conn[c] = "closed" =>
      conn'[c] = "closed" /\ c \notin clients' /\ sseOut'[c] = sseOut[c]

\* C17: on every SSE stream the ready event is the first event written,
\* before any message event; the connection is in the subscriber set from
\* then until its disconnect, and after its disconnect it is out of the set
\* and never written to again.
C17_SubscriberLifecycle == []ReadyFirst /\ [][ClosedIsLeftAlone]_vars

\* A connection got ready, then a message while it was subscribed, then
\* disconnected and left the subscriber set.
C17_Witness ==
  \E c \in Conns :
    /\ conn[c] = "closed" /\ c \notin clients
    /\ Len(sseOut[c]) = 2
    /\ sseOut[c][1].event = "ready" /\ sseOut[c][2].event = "message"

\* The step writes an HTTP reply on the POST route, or a message event.
Replies18 == Len(httpOut') > Len(httpOut)
Broadcasts18 ==
  \E c \in Conns : Len(sseOut'[c]) > Len(sseOut[c]) /\ sseOut'[c][Len(sseOut'[c])].event = "message"

\* With every HTTP reply of the POST route, and only then, the response it
\* carries is appended as one message event to the stream of each subscriber
\* and to no other stream.
ReplyIsBroadcast ==
  /\ Broadcasts18 => Replies18
  /\ Replies18 =>
       LET h == httpOut'[Len(httpOut')]
       IN /\ Len(httpOut') = Len(httpOut) + 1
          /\ \A c \in Conns :
               sseOut'[c] = IF c \in clients
                            THEN Append(sseOut[c], Event("message", h.body, h.n))
                            ELSE sseOut[c]

\* C18: for every POST to the SSE route, the response returned as the HTTP
\* reply is the response broadcast as one message event, exactly once, to
\* each connection that is in the subscriber set at that time.
C18_ReplyIsBroadcast == [][ReplyIsBroadcast]_vars

\* The step answers one POST /mcp/query; the request and the reply it logs.
Answered == Len(restOut') = Len(restOut) + 1
Answer == restOut'[Len(restOut')]

\* What search returns for an answered request.
RawOf(answer) == search(items, answer.query.s, QueryTopK(answer.body, configTopK))

\* The tool ids a session has in the map.
HistoryOf(m, sessionId) ==
  UNION {{m[i].value[j] : j \in 1..Len(m[i].value)} :
           i \in {n \in 1..Len(m) : m[n].key = StringOf(sessionId)}}

NonIncreasing(ms) ==
  \A i \in 1..(Len(ms) - 1) : ~ScoreLess(ms[i].score, ms[i + 1].score)

BoostsHistory ==
  Answered /\ Answer.body.sessionId # U =>
    \E raw \in {RawOf(Answer)}, ms \in {Answer.matches},
       previous \in {HistoryOf(sessionHistory, Answer.body.sessionId)} :
       /\ Len(ms) = Len(raw)
       /\ \A i \in 1..Len(raw) :
            \E j \in 1..Len(ms) :
              /\ ms[j].tool = raw[i].tool
              /\ ms[j].score = IF raw[i].tool.id \in previous
                               THEN Boosted(raw[i].score)
                               ELSE raw[i].score
       /\ NonIncreasing(ms)

\* C19: on a query with a sessionId, every returned match whose tool id is
\* in the session's previous history has its raw score times 1.3, every
\* other match keeps its raw score, and the matches are in order of
\* non-increasing resulting score.
C19_SessionBoost == [][BoostsHistory]_vars

\* A second query of a session (named once by a number, once by its string)
\* whose boost changes the order search gave.
C19_Witness ==
  /\ Len(restOut) = 2
  /\ restOut[1].body.sessionId = Num(1)
  /\ restOut[2].body.sessionId = Str("1")
  /\ LET raw == search(items, restOut[2].query.s, QueryTopK(restOut[2].body, configTopK))
         ms == restOut[2].matches
     IN /\ MatchedIds(ms) # MatchedIds(raw)
        /\ NonIncreasing(ms)
        /\ \E j \in 1..Len(ms) :
             /\ \E i \in 1..Len(restOut[1].matches) :
                  restOut[1].matches[i].tool.id = ms[j].tool.id
             /\ \E i \in 1..Len(raw) :
                  /\ raw[i].tool = ms[j].tool
                  /\ ms[j].score = Boosted(raw[i].score)
                  /\ ms[j].score # raw[i].score

RawUnboosted ==
  Answered /\ Answer.body.sessionId = U =>
    /\ Answer.matches = RawOf(Answer)
    /\ sessionHistory' = sessionHistory

\* C20: a query without a sessionId returns the raw search results, with
\* their raw scores and in their raw order, and leaves the session map as
\* it was, the histories of all other sessions included.
C20_NoSessionNoBoost == [][RawUnboosted]_vars

\* A query without a sessionId is answered while a session has history, and
\* a tool of that history is among its matches.
C20_Witness ==
  /\ Len(restOut) = 2
  /\ restOut[1].body.sessionId = Str("s")
  /\ restOut[2].body.sessionId = U
  /\ Len(sessionHistory) = 1
  /\ sessionHistory[1].key = Str("s")
  /\ sessionHistory[1].value = MatchedIds(restOut[1].matches)
  /\ \E i \in 1..Len(restOut[1].matches), j \in 1..Len(restOut[2].matches) :
       /\ restOut[1].matches[i].tool.id = restOut[2].matches[j].tool.id
       /\ ScoreLess(ZeroScore, restOut[2].matches[j].score)

\* The history the map holds for a session, empty when it has none.
StoredHistory(m, sessionId) ==
  IF MapHas(m, StringOf(sessionId)) THEN MapGet(m, StringOf(sessionId)) ELSE <<>>

Distinct(a) == \A i, j \in 1..Len(a) : a[i] = a[j] => i = j

HistoryIsOfTheQuery ==
  Answered /\ Answer.body.sessionId # U =>
    LET history == StoredHistory(sessionHistory', Answer.body.sessionId)
    IN /\ Len(history) <= 20
       /\ Distinct(history)
       /\ \A i \in 1..Len(history) :
            \E j \in 1..Len(Answer.matches) : Answer.matches[j].tool.id = history[i]

\* C21: after every query carrying a sessionId, the history of that session
\* holds at most 20 tool ids, all distinct and all among the matches that
\* query returned.
C21_HistoryBounded == [][HistoryIsOfTheQuery]_vars

\* A query of a session returned more than 20 matches and the session's
\* history holds 20 of them.
C21_Witness ==
  /\ restOut # <<>>
  /\ restOut[Len(restOut)].body.sessionId = Str("s")
  /\ Len(restOut[Len(restOut)].matches) > 20
  /\ Len(StoredHistory(sessionHistory, Str("s"))) = 20

SetOf(a) == {a[i] : i \in 1..Len(a)}

\* An id of the session's history is still in it after the query, unless
\* the ids the query matched leave no room for it among 20.
HistoryAccumulates ==
  Answered /\ Truthy(Answer.body.sessionId) =>
    LET before == StoredHistory(sessionHistory, Answer.body.sessionId)
        after == StoredHistory(sessionHistory', Answer.body.sessionId)
        matched == {Answer.matches[j].tool.id : j \in 1..Len(Answer.matches)}
    IN /\ Cardinality(SetOf(before) \cup matched) <= 20 => SetOf(before) \subseteq SetOf(after)
       /\ matched # {} => after[Len(after)] \in matched

\* C22: across the queries of one session the history is the up-to-20 most
\* recently matched tool ids, newest last: an id matched by an earlier
\* query stays in the history until 20 more recently matched ids displace
\* it.
C22_HistoryAccumulates == [][HistoryAccumulates]_vars

\* The rank of a tool in a list of matches.
RankOf(ms, id) == CHOOSE i \in 1..Len(ms) : ms[i].tool.id = id

HistoryRanksNoLower ==
  Answered /\ Truthy(Answer.body.sessionId) =>
    \E raw \in {RawOf(Answer)}, ms \in {Answer.matches},
       previous \in {SetOf(StoredHistory(sessionHistory, Answer.body.sessionId))} :
       \A j \in 1..Len(ms) :
         ms[j].tool.id \in previous => j <= RankOf(raw, ms[j].tool.id)

\* C23: in a session, a tool of the session's history ranks at or above the
\* rank it has for the same query without a sessionId, also among tools of
\* equal raw score.
C23_HistoryRanksNoLower == [][HistoryRanksNoLower]_vars

\* A query is repeated in a session, and a tool of the history now ranks
\* above a tool outside the history that has the same raw score and stood
\* above it in the raw order.
C23_Witness ==
  /\ Len(restOut) = 2
  /\ restOut[1].body = restOut[2].body
  /\ restOut[2].body.sessionId = Str("s")
  /\ LET raw == search(items, restOut[2].query.s, QueryTopK(restOut[2].body, configTopK))
         ms == restOut[2].matches
         previous == SetOf(Last(MatchedIds(restOut[1].matches), HistoryCap))
     IN \E i, j \in 1..Len(raw) :
          /\ i < j
          /\ raw[i].score = raw[j].score
          /\ raw[j].tool.id \in previous
          /\ raw[i].tool.id \notin previous
          /\ RankOf(ms, raw[j].tool.id) < RankOf(ms, raw[i].tool.id)

KnownSessions(m) == {m[i].key : i \in 1..Len(m)}

SessionsOnlyGrow ==
  /\ KnownSessions(sessionHistory) \subseteq KnownSessions(sessionHistory')
  /\ Answered /\ Answer.body.sessionId # U =>
       StringOf(Answer.body.sessionId) \in KnownSessions(sessionHistory')

\* C24: a session entry exists from the first query that carries its
\* sessionId, also when that query returns no match, and is never removed:
\* the set of known session ids only grows.
C24_SessionsOnlyGrow == [][SessionsOnlyGrow]_vars

\* The answer to a query without a sessionId is what search returned: at
\* most topK matches, each an entry of the index with its similarity to
\* the query, in non-increasing order, the first one of maximal similarity.
Ranked(answer) ==
  LET ms == answer.matches
      q == embed(answer.query.s)
  IN /\ Len(ms) <= QueryTopK(answer.body, configTopK)
     /\ \A j \in 1..Len(ms) :
          \E i \in 1..Len(items) :
            items[i].tool = ms[j].tool /\ ms[j].score = Cosine2(q, items[i].vector)
     /\ NonIncreasing(ms)
     /\ ms # <<>> =>
          \A i \in 1..Len(items) : ~ScoreLess(ms[1].score, Cosine2(q, items[i].vector))
     /\ items # <<>> => ms # <<>>

\* C25: search(query, topK) returns at most topK results, each an indexed
\* entry, in non-increasing score order, so the first result is an entry of
\* maximal similarity to the query.
C25_SearchIsRanked ==
  \A n \in 1..Len(restOut) : restOut[n].body.sessionId = U => Ranked(restOut[n])

\* A search that had to choose: one match returned out of an index in which
\* the first entry is not the most similar one.
C25_Witness ==
  /\ Len(restOut) = 1
  /\ restOut[1].body.sessionId = U
  /\ Len(restOut[1].matches) = 1
  /\ Len(items) > 1
  /\ restOut[1].matches[1].tool # items[1].tool
  /\ ScoreLess(Cosine2(embed(restOut[1].query.s), items[1].vector), restOut[1].matches[1].score)

\* The limits getActivity is called with: the default, and some numbers.
Limits == {U, Num(1), Num(50), Num(100)}

\* C29: after any sequence of recordEvent calls the activity log holds at
\* most 50 events, the 50 most recent ones, newest first: getActivity(n)[0]
\* is the last recorded event and getActivity never returns more than 50.
C29_ActivityCapped ==
  /\ Len(activity) <= 50
  /\ activity = Reverse(Last(recorded, 50))
  /\ \A limit \in Limits :
       /\ Len(getActivity(activity, limit)) <= 50
       /\ recorded # <<>> => getActivity(activity, limit)[1] = recorded[Len(recorded)]

\* More than 50 events were recorded: the log holds 50, the newest first
\* and the oldest ones gone.
C29_Witness ==
  /\ Len(recorded) = 51
  /\ Len(activity) = 50
  /\ activity[1] = recorded[51]
  /\ activity[1].type = Str("query")
  /\ activity[50] = recorded[2]

\* C27: no JSON-RPC request handled by the dispatcher (initialize,
\* tools/list, tools/call, completion/complete, or an error path) changes
\* the tool registry or the vector index.
C27_DispatchLeavesRegistry == [][tools' = tools /\ items' = items]_vars

\* A tools/call that went upstream and a request answered with an error
\* have been handled, and the index is still the index of the registry.
C27_Witness ==
  /\ tools # <<>>
  /\ items = rebuild(tools)
  /\ \E e \in Logged : IsCall(e) /\ e.reply # U
  /\ \E e \in Logged : ErrorWith(e.v, MethodNotFound, IdOf(e))

\* embed gave this text a vector of Dim elements, all zero when the text
\* has no token.
FixedDim(text) ==
  /\ Len(embed(text)) = Dim
  /\ DOMAIN embed(text) = 1..Dim
  /\ Tokenize(text) = <<>> => \A k \in 1..Dim : embed(text)[k] = 0

\* C28: for every text and every dimension, embed returns a vector of
\* exactly that many elements, and for a text with no tokens (such as the
\* empty string) every element is zero.
C28_EmbedFixedDim ==
  /\ \A i \in 1..Len(items) : Len(items[i].vector) = Dim
  /\ \A i \in 1..Len(tools) : FixedDim(EmbedInput(tools[i]))
  /\ \A n \in 1..Len(restOut) : FixedDim(restOut[n].query.s)

\* The empty text, a text of separators only and a text with a token have
\* been embedded.
C28_Witness ==
  /\ Len(restOut) = 2
  /\ restOut[1].query.s = <<>>
  /\ restOut[2].query.s = <<"-", " ">>
  /\ Tokenize(restOut[2].query.s) = <<>>
  /\ tools # <<>>
  /\ \E k \in 1..Dim : items[1].vector[k] > 0


\* C26: after every rebuild, and so after every completed source sync, source
\* removal and skill load, the index holds exactly one entry per registered
\* tool: as many entries as the registry has tools, with unique ids that are
\* the registry's tool ids.
OneEntryPerTool(its, ts) ==
  /\ Len(its) = Len(ts)
  /\ \A i, j \in 1..Len(its) : its[i].id = its[j].id => i = j
  /\ {its[i].id : i \in 1..Len(its)} = {ts[i].id : i \in 1..Len(ts)}

\* An event of the type is recorded in this step.
Records(type) ==
  \E i \in (Len(recorded) + 1)..Len(recorded') : recorded'[i].type = Str(type)

\* A step that syncs a source, removes one or loads a skill, or that changes
\* the registry or the index at all.
Rebuilt ==
  \/ Records("sync")
  \/ Records("source")
  \/ phase = "boot" /\ phase' = "listening" /\ \E i \in 1..Len(tools') : tools'[i].skillFormat
  \/ tools' # tools
  \/ items' # items

C26_OneEntryPerTool == [][Rebuilt => OneEntryPerTool(items', tools')]_vars

\* A source whose file names a tool twice was synced, a source was removed
\* and a skill was loaded, and the index still holds two entries or more.
C26_Witness ==
  /\ \E i \in 1..Len(recorded) :
       recorded[i].type = Str("sync") /\ recorded[i].message.parts[4] = 3
  /\ \E i \in 1..Len(recorded) : recorded[i].message.parts[1] = "Source deleted: "
  /\ \E i \in 1..Len(tools) : tools[i].skillFormat
  /\ Len(items) >= 2

\* C32: once DELETE /sources/remove for a source has returned and every sync
\* that was in flight has finished, the registry and the index hold no tool of
\* that source and the source details have no entry for it: every registered
\* tool that is not a skill belongs to a configured source.
Configured == {SourceIdOf(sources[i]) : i \in 1..Len(sources)}

OfConfiguredSource(tool) ==
  tool.skillFormat \/ \E sourceId \in Configured : BelongsTo(tool, sourceId)

C32_RemovedStaysRemoved ==
  pending = {} =>
    /\ \A i \in 1..Len(tools) : OfConfiguredSource(tools[i])
    /\ \A i \in 1..Len(items) : OfConfiguredSource(items[i].tool)
    /\ \A i \in 1..Len(sourceMeta) : sourceMeta[i].key \in Configured

\* C33: every syncSource call sets the status of its source to 'syncing'
\* before the parse starts and leaves it 'synced' or 'error' when it finishes;
\* a source no sync of which is in flight never has the status 'syncing'.
StatusOf(meta, source) == Get(MapGet(meta, SourceIdOf(source)), "status")

\* The calls of syncSource under way: the request and the position in it.
Calls(ps) == {<<p.n, p.at>> : p \in ps}

SyncingIsInFlight ==
  \A i \in 1..Len(sourceMeta) :
    sourceMeta[i].value.status = Str("syncing") =>
      \E p \in pending : SourceIdOf(p.source) = sourceMeta[i].key

StatusFollowsSync ==
  /\ \A p \in pending' :
       <<p.n, p.at>> \notin Calls(pending) => StatusOf(sourceMeta', p.source) = Str("syncing")
  /\ \A p \in pending :
       <<p.n, p.at>> \notin Calls(pending') =>
         StatusOf(sourceMeta', p.source) = (IF Records("error") THEN Str("error")
                                            ELSE Str("synced"))

C33_StatusFollowsSync == []SyncingIsInFlight /\ [][StatusFollowsSync]_vars

\* No sync is in flight, one source was synced and the sync of another failed.
C33_Witness ==
  /\ pending = {}
  /\ \E i, j \in 1..Len(sourceMeta) :
       /\ sourceMeta[i].value.status = Str("synced")
       /\ sourceMeta[j].value.status = Str("error")

\* C34: when the parse of a source fails during syncSource, the registry and
\* the index stay as they are, the lastSync and toolCount recorded for the
\* source are preserved, its status becomes 'error' with the error message,
\* and the caller gets the error: the REST routes reply 500, bootstrap rejects.
FailedIn(p) ==
  /\ Len(failed') > Len(failed)
  /\ failed'[Len(failed')][1] = p.n
  /\ failed'[Len(failed')][2] = p.at

\* The message of the failure of this step.
ErrorMessage == failed'[Len(failed')][3]

FailureKeeps ==
  \A p \in pending :
    FailedIn(p) =>
      \E before \in {MapGet(sourceMeta, SourceIdOf(p.source))},
         after \in {MapGet(sourceMeta', SourceIdOf(p.source))} :
        /\ tools' = tools
        /\ items' = items
        /\ after.status = Str("error")
        /\ after.error = ErrorMessage
        /\ Get(before, "lastSync").t = "number" => after.lastSync = before.lastSync
        /\ before # U => after.toolCount = before.toolCount
        /\ IF p.n = 0 THEN phase' = "failed" /\ syncOut' = syncOut
           ELSE syncOut' = Append(syncOut, SyncReply(p.n, 500, [error |-> ErrorMessage]))

C34_FailureKeeps == [][FailureKeeps]_vars

\* C35: the configured sources never hold two entries with the same source
\* id; POST /sources/add with an id that is configured is answered 409 and
\* changes neither the config, the registry nor the index, also while an add
\* of the same id is still syncing.
NoDuplicateSources ==
  \A i, j \in 1..Len(sources) :
    SourceIdOf(sources[i]) = SourceIdOf(sources[j]) => i = j

ExistingIsRefused ==
  /\ Len(sources') > Len(sources) =>
       /\ SubSeq(sources', 1, Len(sources)) = sources
       /\ Len(sources') = Len(sources) + 1
       /\ SourceIdOf(sources'[Len(sources')]) \notin Configured
  /\ (Len(syncOut') > Len(syncOut) /\ syncOut'[Len(syncOut')].status = 409) =>
       /\ sources' = sources
       /\ tools' = tools
       /\ items' = items

C35_NoDuplicateSources == []NoDuplicateSources /\ [][ExistingIsRefused]_vars

\* An add was answered 409 while the add of a source is still syncing, and the
\* source is configured once.
C35_Witness ==
  /\ \E i \in 1..Len(syncOut) : syncOut[i].status = 409
  /\ \E p \in pending : p.route = "add" /\ SourceIdOf(p.source) \in Configured
  /\ Len(sources) = 1

\* C40: syncAll syncs the configured sources in config order, one at a time,
\* and stops at the first source whose sync fails: the sources after it are
\* not synced, their registry tools and their status stay as they are.
IsSyncAll(p) == p.route \in {"syncAll", "boot"}

OneSourceAtATime == \A p, q \in pending : p.n = q.n => p = q

InConfigOrder ==
  /\ \A q \in pending' :
       (IsSyncAll(q) /\ q.at = 1 /\ <<q.n, q.at>> \notin Calls(pending)) =>
         q.source = sources'[1]
  /\ \A p \in pending :
       (IsSyncAll(p) /\ <<p.n, p.at>> \notin Calls(pending')) =>
         IF Records("error")
         THEN /\ \A q \in pending' : q.n # p.n
              /\ tools' = tools
              /\ items' = items
              /\ \A i \in 1..Len(sourceMeta') :
                   sourceMeta'[i].key # SourceIdOf(p.source) =>
                     MapGet(sourceMeta, sourceMeta'[i].key) = sourceMeta'[i].value
         ELSE IF p.at < Len(sources)
         THEN \E q \in pending' :
                q.n = p.n /\ q.at = p.at + 1 /\ q.source = sources[p.at + 1]
         ELSE \A q \in pending' : q.n # p.n

C40_SyncAllInOrder == []OneSourceAtATime /\ [][InConfigOrder]_vars

\* C38: a query carrying a sessionId neither reads nor changes the history
\* of another session: its boosts are those its own previous history gives,
\* and after it every other session has the history it had.
OwnHistory(m, sessionId) == SelectSeq(m, LAMBDA e : e.key = sessionId)

SessionIsolated ==
  Answered =>
    \E sessionId \in {SessionOf(Answer.body)} :
      /\ \A i \in 1..Len(sessionHistory) :
           sessionHistory[i].key # sessionId =>
             /\ MapHas(sessionHistory', sessionHistory[i].key)
             /\ MapGet(sessionHistory', sessionHistory[i].key) = sessionHistory[i].value
      /\ \A i \in 1..Len(sessionHistory') :
           sessionHistory'[i].key # sessionId => MapHas(sessionHistory, sessionHistory'[i].key)
      /\ Truthy(sessionId) =>
           Answer.matches =
             rerank(RawOf(Answer),
                    previousToolIds(OwnHistory(sessionHistory, sessionId), sessionId))

C38_SessionIsolated == [][SessionIsolated]_vars

\* Two sessions have a history and a tool is in both: the second session's
\* query matched a tool of the first session's history.
C38_Witness ==
  /\ Len(sessionHistory) = 2
  /\ \E i \in 1..Len(sessionHistory[1].value), j \in 1..Len(sessionHistory[2].value) :
       sessionHistory[1].value[i] = sessionHistory[2].value[j]

\* C39: when the stdio buffer begins with 'Content-Length:' and its complete
\* header carries no decimal length, the parser discards everything buffered
\* at that moment, complete well-formed messages after the header included,
\* and goes on only with the input that arrives later.
BadHeaderAhead(text) ==
  /\ StartsWith(text, ContentLength)
  /\ IndexOf(text, HeaderEnd) # -1
  /\ lengthMatch(Slice(text, 0, IndexOf(text, HeaderEnd))) = <<>>

\* The text the parser is given in this step: the buffer and the new chunk.
Fed == buffer \o SubSeq(input, 1, Len(input) - Len(input'))

DiscardsBuffered ==
  \E text \in {Fed} :
    \A j \in 0..Len(text) :
      BadHeaderAhead(SubSeq(text, j + 1, Len(text))) =>
        \E before \in {parseStdioMessages(SubSeq(text, 1, j))} :
          before.buffer = <<>> =>
            /\ buffer' = <<>>
            /\ got' = got \o before.messages

C39_DiscardsBuffered == [][DiscardsBuffered]_vars

\* All of a text that held a header without a length and a well-formed
\* message after it has arrived, and that message was not parsed.
C39_Witness ==
  /\ input = <<>>
  /\ buffer = <<>>
  /\ Len(sent) = 2
  /\ sent[1] = NoLength
  /\ sent[2].ok
  /\ got = <<>>

(***************************************************************************)
(* Order and single dispatch on stdio                                      *)
(***************************************************************************)
\* The messages of a chunk that the loop of a suspended handler has not
\* reached yet.
Queued ==
  UNION {(p.n + 1)..(p.n + Len(p.rest)) : p \in {q \in inflight : q.via = "stdio"}}

\* The number of handleRpc calls made for message n: the calls that ended
\* and the one that awaits an upstream reply.
Dispatches(n) ==
  Cardinality({i \in 1..Len(log) : log[i].n = n})
    + Cardinality({p \in inflight : p.n = n})

\* Every message received is handed to handleRpc once: not at all while the
\* loop of its chunk waits before it, once from then on.
DispatchedOnce ==
  \A n \in 1..nreq : Dispatches(n) = IF n \in Queued THEN 0 ELSE 1

\* Nothing is written for a message that awaits or that the loop has not
\* reached, each write is one whole Content-Length frame, and no message
\* has two frames.
WholeFrames ==
  /\ \A i \in 1..Len(stdout) :
        /\ stdout[i].frame = "Content-Length"
        /\ stdout[i].n \notin Queued \cup {p.n : p \in inflight}
  /\ \A i, j \in 1..Len(stdout) : stdout[i].n = stdout[j].n => i = j

\* A step only adds frames, and the frames one run of the loop writes follow
\* the order of the messages.
WritesInOrder ==
  /\ SubSeq(stdout', 1, Len(stdout)) = stdout
  /\ \A i, j \in (Len(stdout) + 1)..Len(stdout') :
        i < j => stdout'[i].n < stdout'[j].n

\* C37: on stdio every received message is dispatched exactly once, the
\* responses to the messages of one chunk are written in the order of the
\* messages, and each response is one contiguous frame, also when a later
\* chunk arrives while an earlier message awaits its upstream reply.
C37_OrderedOnce ==
  /\ [](transport = "stdio" => DispatchedOnce /\ WholeFrames)
  /\ [][transport = "stdio" => WritesInOrder]_vars

(***************************************************************************)
(* One rebuild and one timer at a time                                     *)
(***************************************************************************)
\* At most one onRebuild call is in progress and at most one timer is
\* pending; each flag is set exactly while its rebuild or timer is.
OneAtATime ==
  /\ Cardinality(running) <= 1
  /\ timers <= 1
  /\ rebuildScheduled <=> timers = 1
  /\ rebuilding <=> running # {}

\* The number of rebuild attempts made so far.
Attempts == Len(rebuilds) + Cardinality(running)

\* A change detected while a timer is pending sets no timer, the firing of
\* a timer makes at most one attempt, and an attempt that ends, failed or
\* not, leaves the flag cleared.
Coalesced ==
  /\ (changes' > changes /\ timers = 1) => timers' = 1 /\ Attempts' = Attempts
  /\ timers' < timers => Attempts' <= Attempts + 1
  /\ Len(rebuilds') > Len(rebuilds) => ~rebuilding'

\* C36: under --watch at most one rebuild runs and at most one timer is
\* pending at a time, the changes detected while a timer is pending share
\* that timer's one rebuild attempt, and a rebuild that fails clears the
\* in-progress flag, so that a later change can rebuild again.
C36_OneRebuildOneTimer == []OneAtATime /\ [][Coalesced]_vars

\* Two changes shared one timer, the rebuild it started failed, and a later
\* change made a second attempt.
C36_Witness ==
  /\ changes = 3
  /\ Len(rebuilds) = 1
  /\ rebuilds[1] = Attempt(2, FALSE)
  /\ \E r \in running : r.at = 3

(***************************************************************************)
(* Every change is rebuilt                                                 *)
(***************************************************************************)
\* A rebuild that started when change c had been detected has completed
\* with success.
RebuiltSince(c) ==
  \E i \in 1..Len(rebuilds) : rebuilds[i].ok /\ rebuilds[i].at >= c

\* C31: with --watch every change detected in a watched directory is
\* eventually followed by an index rebuild that starts after the change and
\* completes successfully, also when the change arrives while a rebuild is
\* in progress.
C31_ChangeIsRebuilt ==
  \A c \in 1..MaxChanges : (changes >= c) ~> RebuiltSince(c)
====
